---------------------------- MODULE Spec2Model ----------------------------
(***************************************************************************)
(* A model of the Kokkos-ified Units Library (kul): the rational number    *)
(* type, the SI dimension vector, the optional origin, the dynamic and the *)
(* static unit algebra, the conversion between units and the quantity.     *)
(*                                                                         *)
(* std::int64_t is modelled as a two's-complement integer of IntBits bits; *)
(* every value the unit algebra computes stays far inside that range, so   *)
(* the arithmetic there is the exact arithmetic of the program.            *)
(* The int exponents of a dimension are two's-complement integers of       *)
(* ExponentBits bits.                                                      *)
(***************************************************************************)
EXTENDS Integers, Sequences, FiniteSets, TLC

VARIABLES
  rat,       \* the rational value held by the rational state machine
  ratPc,     \* "value": rat is the result of the last operation; "trapped"
  ratOp,     \* the last operation applied
  ratUB,     \* some operation so far overflowed or divided by zero
  ratSteps,  \* number of operations applied so far
  dyn,       \* the dynamic_unit built so far (or the error thrown)
  stat,      \* the static unit type built so far (or the build failure)
  dynPrev,   \* dyn before the last operation
  statPrev,  \* stat before the last operation
  uOp,       \* the last operation of the unit algebra
  uArg,      \* its operand: a unit, or the exponent of a root in a record
  uSteps,    \* number of unit operations applied so far
  qty,       \* the quantity computed so far: its value and its unit type
  qDyn,      \* the dynamic_unit describing the unit of qty
  qtyPrev,   \* qty before the last operation
  qDynPrev,  \* qDyn before the last operation
  qOp,       \* the last operation on the quantity
  qArg,      \* its operand: a quantity, or the unit converted to
  qSteps,    \* number of quantity operations applied so far
  dimD,      \* the dimension D a law of the dimensions is evaluated on
  dimE,      \* the dimension E
  dimA,      \* the integer a
  dimB,      \* the integer b
  dimOp,     \* the law evaluated last
  dimLhs,    \* the value of its left-hand side
  dimRhs,    \* the value of its right-hand side
  prod,      \* the dynamic_product under construction
  prodPrev,  \* prod before the last operation
  prodOp,    \* the last operation on prod
  prodArg,   \* the unit it was applied with
  prodIn,    \* the terms applied so far, each a base and a signed exponent
  prodOut,   \* the unit returned by the last prod.simplify()
  prodSteps, \* number of multiply_with and divide_by calls so far
  sprod,     \* the static_product built by the same calls on types
  sprodPrev, \* sprod before the last operation
  sprodOut,  \* the type simplify_t<sprod> of the last simplification
  heap,      \* the free store: its cells, and whether a call threw
  held,      \* the addresses of the units the program holds
  heldPrev,  \* the descriptions they pointed to before the last call
  ownOp,     \* the last call
  ownTarget, \* the held unit it changed in place, 0 when none
  ownSteps,  \* number of calls so far
  lawA,      \* the rational a law is evaluated on
  lawB,      \* the second rational of the law
  lawE,      \* the exponent e of the law
  lawF,      \* the exponent f of the law
  lawOp,     \* the law evaluated
  lawLhs,    \* the value of its left-hand side
  lawRhs,    \* the value of its right-hand side
  lawUB,     \* did the evaluation overflow
  lawPc,     \* "value", or "trapped" when the overflow trapped
  feN,       \* last - first of the range handed to for_each
  fePolicy,  \* the execution policy of the call
  fePc,      \* "called", "launched" (the kernel is running) or "done"
  feFirst,   \* the iterator first of the serial loop, as an offset
  feApplied, \* how often f was called on each position
  feOrdered, \* was every call on a position behind all earlier ones
  feBlocks,  \* the blocks of the grid the kernel was launched on
  feRan,     \* the threads of the grid that have run
  m_values,            \* the values each rank holds
  local_max_exponent,  \* each rank's largest exponent
  global_max_exponent, \* each rank's buffer of the first all-reduce
  local_sum,           \* each rank's fixed-point sum
  global_sum,          \* each rank's buffer of the second all-reduce
  fpPc,                \* where each rank is in compute()
  fpSeen,              \* the values a rank has converted and added
  fpFolded,            \* the ranks whose sum a rank's buffer holds
  fpConvertedAt,       \* the exponents a rank has converted values at
  fpResult             \* the double compute() returned on each rank

ratVars == <<rat, ratPc, ratOp, ratUB, ratSteps>>

unitVars == <<dyn, stat, dynPrev, statPrev, uOp, uArg, uSteps>>

qtyVars == <<qty, qDyn, qtyPrev, qDynPrev, qOp, qArg, qSteps>>

dimVars == <<dimD, dimE, dimA, dimB, dimOp, dimLhs, dimRhs>>

vars == <<rat, ratPc, ratOp, ratUB, ratSteps,
          dyn, stat, dynPrev, statPrev, uOp, uArg, uSteps,
          qty, qDyn, qtyPrev, qDynPrev, qOp, qArg, qSteps,
          dimD, dimE, dimA, dimB, dimOp, dimLhs, dimRhs,
          prod, prodPrev, prodOp, prodArg, prodIn, prodOut, prodSteps,
          sprod, sprodPrev, sprodOut,
          heap, held, heldPrev, ownOp, ownTarget, ownSteps,
          lawA, lawB, lawE, lawF, lawOp, lawLhs, lawRhs, lawUB, lawPc,
          feN, fePolicy, fePc, feFirst, feApplied, feOrdered, feBlocks,
          feRan,
          m_values, local_max_exponent, global_max_exponent, local_sum,
          global_sum, fpPc, fpSeen, fpFolded, fpConvertedAt, fpResult>>

prodVars == <<prod, prodPrev, prodOp, prodArg, prodIn, prodOut, prodSteps,
              sprod, sprodPrev, sprodOut>>

ownVars == <<heap, held, heldPrev, ownOp, ownTarget, ownSteps>>

lawVars == <<lawA, lawB, lawE, lawF, lawOp, lawLhs, lawRhs, lawUB, lawPc>>

feVars ==
  <<feN, fePolicy, fePc, feFirst, feApplied, feOrdered, feBlocks, feRan>>

fpVars ==
  <<m_values, local_max_exponent, global_max_exponent, local_sum,
    global_sum, fpPc, fpSeen, fpFolded, fpConvertedAt, fpResult>>

-----------------------------------------------------------------------------
(* Bounds of the model *)

\* width in bits of the model's std::int64_t
IntBits == 28
\* longest sequence of rational operations explored
MaxRatSteps == 2
\* longest sequence of unit operations explored
MaxUnitSteps == 2
\* largest |e| passed to pow(rational, int)
MaxPow == 2
\* longest sequence of quantity operations explored
MaxQuantitySteps == 2
\* width in bits of the model's int, the type of a dimension's exponents
ExponentBits == 8
\* longest sequence of multiply_with and divide_by calls on one product
MaxProductSteps == 3
\* longest sequence of calls on the units the program holds
MaxOwnSteps == 2
\* largest |e| of a pow(b, e) in the laws of the rational arithmetic
MaxLawPow == 2
\* largest number of elements of a range handed to for_each
MaxElements == 9
\* width in bits of the model's unsigned
UnsignedBits == 3
\* threads of a block in the model, for the 32 of cuda_block
BlockSize == 2
\* ranks of the communicator
NumRanks == 2
\* largest number of values on all ranks together
MaxValues == 3
\* width in bits of the significand of the model's double, for 53
SignificandBits == 3
\* width in bits of the model's int128
Int128Bits == 8

-----------------------------------------------------------------------------
(* std::int64_t arithmetic *)

Modulus == 2 ^ IntBits
MaxInt == 2 ^ (IntBits - 1) - 1
MinInt == - (2 ^ (IntBits - 1))

MathAbs(x) == IF x < 0 THEN -x ELSE x
Sign(x) == IF x < 0 THEN -1 ELSE 1

\* the value a two's-complement register holds for the mathematical value x
Wrap(x) == ((x - MinInt) % Modulus) + MinInt

\* a * b in the register, computed by halves so that no intermediate value of
\* the evaluation leaves the range of the model checker's integers
WrapMul(a, b) ==
  LET H  == 2 ^ (IntBits \div 2)
      H2 == Modulus \div H
      ua == a % Modulus
      ub == b % Modulus
      al == ua % H
      ah == ua \div H
      bl == ub % H
      bh == ub \div H
      mid  == ((ah * bl + al * bh) % H2) * H
      high == ((ah * bh) % (Modulus \div (H * H))) * (H * H)
  IN  Wrap(al * bl + mid + high)

\* does the mathematical product a * b fit the register
MulFits(a, b) ==
  \/ a = 0
  \/ b = 0
  \/ /\ Sign(a) = Sign(b)
     /\ MathAbs(a) <= MaxInt \div MathAbs(b)
  \/ /\ Sign(a) # Sign(b)
     /\ MathAbs(a) <= (MaxInt + 1) \div MathAbs(b)

\* C++ integer division truncates towards zero; division by zero is undefined
\* (the non-trapping outcome is modelled as 0, the trap by the caller)
CDiv(a, b) ==
  IF b = 0 THEN 0
  ELSE Wrap(Sign(a) * Sign(b) * (MathAbs(a) \div MathAbs(b)))

\* C++ remainder has the sign of the dividend
CRem(a, b) ==
  IF b = 0 THEN 0
  ELSE Sign(a) * (MathAbs(a) % MathAbs(b))

-----------------------------------------------------------------------------
(* Section [rational] *)

abs(a) == IF a < 0 THEN Wrap(-a) ELSE a

RECURSIVE gcd(_, _)
gcd(a, b) == IF b # 0 THEN gcd(b, CRem(a, b)) ELSE a

rational(numerator_arg, denominator_arg) ==
  LET abs_num_arg == abs(numerator_arg)
      abs_den_arg == abs(denominator_arg)
      common      == gcd(abs_num_arg, abs_den_arg)
      abs_num     == CDiv(abs_num_arg, common)
      abs_den     == CDiv(abs_den_arg, common)
      is_negative == (~(numerator_arg < 0)) # (~(denominator_arg < 0))
  IN  [num |-> IF is_negative THEN Wrap(-abs_num) ELSE abs_num,
       den |-> abs_den]

rational1(numerator_arg) == rational(numerator_arg, 1)

inverse(a) == rational(a.den, a.num)

RatMul(a, b) == rational(WrapMul(a.num, b.num), WrapMul(a.den, b.den))

RatDiv(a, b) == RatMul(a, inverse(b))

RECURSIVE RatPowTimes(_, _, _)
RatPowTimes(result, b, i) ==
  IF i <= 0 THEN result ELSE RatPowTimes(RatMul(result, b), b, i - 1)

RECURSIVE RatPowOver(_, _, _)
RatPowOver(result, b, i) ==
  IF i <= 0 THEN result ELSE RatPowOver(RatDiv(result, b), b, i - 1)

RatPow(b, e) == RatPowOver(RatPowTimes(rational1(1), b, e), b, -e)

(* Undefined behaviour: does evaluating the operation overflow a signed     *)
(* 64-bit value or divide by zero.  The build then either carries on with   *)
(* the wrapped register value or traps.                                     *)

rationalUB(n, d) ==
  \/ n = MinInt
  \/ d = MinInt
  \/ (n = 0 /\ d = 0)

inverseUB(a) == rationalUB(a.den, a.num)

RatMulUB(a, b) ==
  \/ ~MulFits(a.num, b.num)
  \/ ~MulFits(a.den, b.den)
  \/ rationalUB(WrapMul(a.num, b.num), WrapMul(a.den, b.den))

RatDivUB(a, b) == inverseUB(b) \/ RatMulUB(a, inverse(b))

RECURSIVE RatPowTimesUB(_, _, _)
RatPowTimesUB(result, b, i) ==
  IF i <= 0 THEN FALSE
  ELSE RatMulUB(result, b) \/ RatPowTimesUB(RatMul(result, b), b, i - 1)

RECURSIVE RatPowOverUB(_, _, _)
RatPowOverUB(result, b, i) ==
  IF i <= 0 THEN FALSE
  ELSE RatDivUB(result, b) \/ RatPowOverUB(RatDiv(result, b), b, i - 1)

RatPowUB(b, e) ==
  \/ RatPowTimesUB(rational1(1), b, e)
  \/ RatPowOverUB(RatPowTimes(rational1(1), b, e), b, -e)

UBOutcomes(ub) == IF ub THEN {"value", "trapped"} ELSE {"value"}

-----------------------------------------------------------------------------
(* Section [dimension]: the exponents of time, length, mass, electric       *)
(* current, temperature, amount of substance and luminous intensity         *)

Dim(t, l, m, i, k, n, j) == <<t, l, m, i, k, n, j>>

dimensionless == Dim(0, 0, 0, 0, 0, 0, 0)
time          == Dim(1, 0, 0, 0, 0, 0, 0)
length        == Dim(0, 1, 0, 0, 0, 0, 0)
mass          == Dim(0, 0, 1, 0, 0, 0, 0)
temperature   == Dim(0, 0, 0, 0, 1, 0, 0)

\* int arithmetic: the exponents are two's-complement integers that wrap
MaxExponent == 2 ^ (ExponentBits - 1) - 1

MinExponent == -(2 ^ (ExponentBits - 1))

WrapInt(x) ==
  ((x + 2 ^ (ExponentBits - 1)) % (2 ^ ExponentBits)) - 2 ^ (ExponentBits - 1)

\* operator*(dimension, dimension)
DimMul(a, b) == [x \in 1 .. 7 |-> WrapInt(a[x] + b[x])]

\* operator/(dimension, dimension)
DimDiv(a, b) == [x \in 1 .. 7 |-> WrapInt(a[x] - b[x])]

\* pow with the exponent added to, not multiplied with, every component
DimPowAdding(d, e) == [x \in 1 .. 7 |-> WrapInt(d[x] + e)]

\* pow(dimension, int)
DimPow(d, e) == [x \in 1 .. 7 |-> WrapInt(d[x] * e)]

DimEq(a, b) == \A x \in 1 .. 7 : a[x] = b[x]

-----------------------------------------------------------------------------
(* Section [optional] *)

nullopt == [has_value |-> FALSE]

Some(v) == [has_value |-> TRUE, value |-> v]

OptEq(a, b) ==
  IF (~a.has_value) /\ (~b.has_value) THEN TRUE
  ELSE IF a.has_value /\ b.has_value THEN a.value = b.value
  ELSE FALSE

RatEq(a, b) == (a.num = b.num) /\ (a.den = b.den)

-----------------------------------------------------------------------------
(* Section [unit]: unit descriptions.  A description is a named unit (a     *)
(* class derived from crtp, possibly a prefix template applied to another   *)
(* unit), a power node (dynamic_exp / static_pow) or a product node         *)
(* (dynamic_product / static_product).                                      *)

Named(n) == [kind |-> "named", name |-> n]

Prefixed(p, u) == [kind |-> "named", name |-> p, of |-> u]

Exp(b, e) == [kind |-> "exp", base |-> b, exponent |-> e]

Product(ts) == [kind |-> "product", terms |-> ts]

IsNamed(u) == u.kind = "named"
IsExp(u) == u.kind = "exp"
IsProduct(u) == u.kind = "product"

\* dynamic_cast<unitless const*> and the template argument `unitless`: the
\* class unitless itself, no other unit
IsUnitless(u) == u = Named("unitless")

\* units that user code defines on top of the library: an affine temperature
\* scale has an origin, the others are relative
UserDimension(n) ==
  CASE n = "percent"    -> dimensionless
    [] n = "kelvin"     -> temperature
    [] n = "celsius"    -> temperature
    [] n = "fahrenheit" -> temperature
    [] n = "watt"       -> Dim(-3, 2, 1, 0, 0, 0, 0)
    [] n = "joule"      -> Dim(-2, 2, 1, 0, 0, 0, 0)

UserMagnitude(n) ==
  CASE n = "percent"    -> rational(1, 100)
    [] n = "kelvin"     -> rational1(1)
    [] n = "celsius"    -> rational1(1)
    [] n = "fahrenheit" -> rational(5, 9)
    [] n = "watt"       -> rational1(1)
    [] n = "joule"      -> rational1(1)

UserOrigin(n) ==
  CASE n = "kelvin"     -> Some(rational1(0))
    [] n = "celsius"    -> Some(rational(27315, 100))
    [] n = "fahrenheit" -> Some(rational(45967, 180))
    [] OTHER            -> nullopt

\* the named units of Section [named]
NamedDimension(n) ==
  CASE n = "unitless"   -> dimensionless
    [] n = "second"     -> time
    [] n = "meter"      -> length
    [] n = "inch"       -> length
    [] n = "gram"       -> mass
    [] n = "radian"     -> dimensionless
    [] OTHER            -> UserDimension(n)

NamedMagnitude(n) ==
  CASE n = "unitless"   -> rational1(1)
    [] n = "second"     -> rational1(1)
    [] n = "meter"      -> rational1(1)
    [] n = "inch"       -> rational(254, 10000)
    [] n = "gram"       -> rational(1, 1000)
    [] n = "radian"     -> rational1(1)
    [] OTHER            -> UserMagnitude(n)

NamedOrigin(n) ==
  IF n \in {"unitless", "second", "meter", "inch", "gram", "radian"}
    THEN nullopt
  ELSE UserOrigin(n)

\* a prefix written by user code in the manner of kilo and milli
micro_magnitude(T_magnitude) == RatMul(rational(1, 1000000), T_magnitude)

IsPrefix(u) == u.name \in {"kilo", "milli", "micro", "make_relative"}

\* static_dimension(), static_magnitude() and static_origin() of a unit type
RECURSIVE static_dimension(_)
static_dimension(u) ==
  CASE IsNamed(u) ->
         IF IsPrefix(u) THEN static_dimension(u.of) ELSE NamedDimension(u.name)
    [] IsExp(u) -> DimPow(static_dimension(u.base), u.exponent)
    [] IsProduct(u) ->
         IF u.terms = <<>> THEN dimensionless
         ELSE IF Len(u.terms) = 1 THEN static_dimension(Head(u.terms))
         ELSE DimMul(static_dimension(Head(u.terms)),
                     static_dimension(Product(Tail(u.terms))))

RECURSIVE static_magnitude(_)
static_magnitude(u) ==
  CASE IsNamed(u) ->
         IF u.name = "kilo"
           THEN RatMul(rational1(1000), static_magnitude(u.of))
         ELSE IF u.name = "milli"
           THEN RatMul(rational(1, 1000), static_magnitude(u.of))
         ELSE IF u.name = "micro"
           THEN micro_magnitude(static_magnitude(u.of))
         ELSE IF u.name = "make_relative" THEN static_magnitude(u.of)
         ELSE NamedMagnitude(u.name)
    [] IsExp(u) -> RatPow(static_magnitude(u.base), u.exponent)
    [] IsProduct(u) ->
         IF u.terms = <<>> THEN rational1(1)
         ELSE IF Len(u.terms) = 1 THEN static_magnitude(Head(u.terms))
         ELSE RatMul(static_magnitude(Head(u.terms)),
                     static_magnitude(Product(Tail(u.terms))))

static_origin(u) ==
  IF IsNamed(u) /\ ~IsPrefix(u) THEN NamedOrigin(u.name) ELSE nullopt

\* are_equal<A, B>
are_equal(a, b) ==
  /\ DimEq(static_dimension(a), static_dimension(b))
  /\ RatEq(static_magnitude(a), static_magnitude(b))
  /\ OptEq(static_origin(a), static_origin(b))

is_absolute(u) == static_origin(u).has_value

is_relative(u) == ~is_absolute(u)

\* can U::static_origin() be evaluated in a constant expression:
\* optional(nullopt_t) can, optional(T const&) builds the value with a
\* placement new into a char array and cannot, so a unit type with an origin
\* makes are_equal, is_absolute, is_relative and static_conversion ill-formed
IsConstantOrigin(U) == ~static_origin(U).has_value

-----------------------------------------------------------------------------
(* Section [dynamic]: the virtual functions of the run-time descriptions.   *)
(* dynamic_product::dimension() and magnitude() read the first term without *)
(* looking whether there is one: on an empty product the read is undefined, *)
(* and no operation of the model evaluates it.                              *)

RECURSIVE dimension(_)
RECURSIVE DimensionFrom(_, _, _)
DimensionFrom(result, ts, i) ==
  IF i > Len(ts) THEN result
  ELSE DimensionFrom(DimMul(result, dimension(ts[i])), ts, i + 1)

dimension(u) ==
  CASE IsNamed(u) -> static_dimension(u)
    [] IsExp(u) -> DimPow(dimension(u.base), u.exponent)
    [] IsProduct(u) ->
         IF u.terms = <<>> THEN "undefined"
         ELSE DimensionFrom(dimension(u.terms[1]), u.terms, 2)

RECURSIVE magnitude(_)
RECURSIVE MagnitudeFrom(_, _, _)
MagnitudeFrom(result, ts, i) ==
  IF i > Len(ts) THEN result
  ELSE MagnitudeFrom(RatMul(result, magnitude(ts[i])), ts, i + 1)

magnitude(u) ==
  CASE IsNamed(u) -> static_magnitude(u)
    [] IsExp(u) -> RatPow(magnitude(u.base), u.exponent)
    [] IsProduct(u) ->
         IF u.terms = <<>> THEN "undefined"
         ELSE MagnitudeFrom(magnitude(u.terms[1]), u.terms, 2)

origin(u) == IF IsNamed(u) THEN static_origin(u) ELSE nullopt

\* operator==(unit const&, unit const&)
UnitEq(a, b) ==
  /\ DimEq(dimension(a), dimension(b))
  /\ RatEq(magnitude(a), magnitude(b))
  /\ OptEq(origin(a), origin(b))

\* what a throw statement (or a failed reference dynamic_cast) hands to the
\* caller instead of a unit, and what a failed static_assert leaves instead of
\* a type
Error(what) == [kind |-> "error", what |-> what]

IsError(u) == u.kind = "error"

unitless == Named("unitless")

\* dynamic_product::push_back_unless_unitless
push_back_unless_unitless(p, term) ==
  IF ~IsUnitless(term) THEN Product(Append(p.terms, term)) ELSE p

\* the loop of multiply_with left out: the new term is always appended
MultiplyWithExpAppending(p, new_exp, i) == Product(Append(p.terms, new_exp))

\* dynamic_product::multiply_with(dynamic_exp const&): the loop over m_terms
\* from position i
RECURSIVE MultiplyWithExpFrom(_, _, _)
MultiplyWithExpFrom(p, new_exp, i) ==
  IF i > Len(p.terms) THEN Product(Append(p.terms, new_exp))
  ELSE IF ~IsExp(p.terms[i]) THEN Error("bad_cast")
  ELSE IF UnitEq(p.terms[i].base, new_exp.base)
    THEN Product([p.terms EXCEPT
                    ![i] = Exp(new_exp.base,
                               p.terms[i].exponent + new_exp.exponent)])
  ELSE MultiplyWithExpFrom(p, new_exp, i + 1)

multiply_with_exp(p, new_exp) ==
  IF IsError(p) THEN p ELSE MultiplyWithExpFrom(p, new_exp, 1)

divide_by_exp(p, new_exp) ==
  multiply_with_exp(p, Exp(new_exp.base, -new_exp.exponent))

\* the named unit appended as it is, without the power node around it
PushBackNamed(p, new_named) ==
  IF IsError(p) THEN p ELSE Product(Append(p.terms, new_named))

multiply_with_named(p, new_named) == multiply_with_exp(p, Exp(new_named, 1))

divide_by_named(p, new_named) == divide_by_exp(p, Exp(new_named, 1))

\* dynamic_product::multiply_with(dynamic_unit const&) and the overload for a
\* dynamic_product, which applies the terms one at a time
RECURSIVE multiply_with(_, _)
RECURSIVE MultiplyWithTerms(_, _, _)
MultiplyWithTerms(p, ts, i) ==
  IF i > Len(ts) THEN p
  ELSE MultiplyWithTerms(multiply_with(p, ts[i]), ts, i + 1)

multiply_with(p, new_unit) ==
  IF IsError(p) THEN p
  ELSE IF IsProduct(new_unit) THEN MultiplyWithTerms(p, new_unit.terms, 1)
  ELSE IF IsExp(new_unit) THEN multiply_with_exp(p, new_unit)
  ELSE IF IsNamed(new_unit) THEN multiply_with_named(p, new_unit)
  ELSE p

RECURSIVE divide_by(_, _)
RECURSIVE DivideByTerms(_, _, _)
DivideByTerms(p, ts, i) ==
  IF i > Len(ts) THEN p
  ELSE DivideByTerms(divide_by(p, ts[i]), ts, i + 1)

divide_by(p, new_unit) ==
  IF IsError(p) THEN p
  ELSE IF IsProduct(new_unit) THEN DivideByTerms(p, new_unit.terms, 1)
  ELSE IF IsExp(new_unit) THEN divide_by_exp(p, new_unit)
  ELSE IF IsNamed(new_unit) THEN divide_by_named(p, new_unit)
  ELSE p

\* dynamic_exp::simplify
simplify_exp(u) ==
  IF u.exponent = 0 THEN unitless
  ELSE IF u.exponent = 1 THEN u.base
  ELSE u

\* crtp::simplify, dynamic_exp::simplify and dynamic_product::simplify
RECURSIVE simplify(_)
RECURSIVE SimplifyTerms(_, _, _)
SimplifyTerms(result, ts, i) ==
  IF i > Len(ts) THEN result
  ELSE SimplifyTerms(push_back_unless_unitless(result, simplify(ts[i])),
                     ts, i + 1)

simplify(u) ==
  IF IsError(u) THEN u
  ELSE IF IsNamed(u) THEN u
  ELSE IF IsExp(u) THEN simplify_exp(u)
  ELSE LET result == SimplifyTerms(Product(<<>>), u.terms, 1)
       IN  IF result.terms = <<>> THEN unitless
           ELSE IF Len(result.terms) = 1 THEN result.terms[1]
           ELSE result

\* operator*(dynamic_unit const&, dynamic_unit const&)
DynMul(a, b) ==
  simplify(multiply_with(multiply_with(Product(<<>>), a), b))

\* operator/(dynamic_unit const&, dynamic_unit const&)
DynDiv(a, b) ==
  simplify(divide_by(multiply_with(Product(<<>>), a), b))

\* root(dynamic_unit const&, int)
RECURSIVE root(_, _)
RECURSIVE RootTerms(_, _, _, _)
RootTerms(result, ts, exponent, i) ==
  IF i > Len(ts) THEN result
  ELSE LET r == root(ts[i], exponent)
       IN  IF IsError(r) THEN r
           ELSE RootTerms(multiply_with(result, r), ts, exponent, i + 1)

root(base, exponent) ==
  IF IsNamed(base) THEN Error("runtime_error")
  ELSE IF IsExp(base)
    THEN IF CRem(base.exponent, exponent) # 0 THEN Error("runtime_error")
         ELSE simplify(Exp(base.base, CDiv(base.exponent, exponent)))
  ELSE IF IsProduct(base)
    THEN simplify(RootTerms(Product(<<>>), base.terms, exponent, 1))
  ELSE Error("logic_error")

\* exp_ptr->exponent() % exponent and / exponent with exponent = 0 divide by
\* zero, which is undefined: does root(base, exponent) evaluate them.  The
\* terms of a product are rooted in order, and a throw ends the loop.
RECURSIVE rootUB(_, _)
rootUB(base, exponent) ==
  IF IsExp(base) THEN exponent = 0
  ELSE IF IsProduct(base)
    THEN \E i \in 1 .. Len(base.terms) :
           /\ rootUB(base.terms[i], exponent)
           /\ \A j \in 1 .. (i - 1) : ~IsError(root(base.terms[j], exponent))
  ELSE FALSE

\* the program stopped by the division trap
Trapped == [kind |-> "trapped"]

IsTrapped(u) == u.kind = "trapped"

\* what root(base, exponent) can yield: its value, or the trap when a
\* division by zero is evaluated
RootOutcomes(base, exponent) ==
  IF rootUB(base, exponent) THEN {root(base, exponent), Trapped}
  ELSE {root(base, exponent)}

-----------------------------------------------------------------------------
(* Section [static]: the type-level algebra.  A type is the same kind of    *)
(* description; two types are the same type when the descriptions are the   *)
(* same value.                                                              *)

\* prepend with the term put behind the others
PrependLast(first, p) == Product(p.terms \o <<first>>)

prepend(first, p) == Product(<<first>> \o p.terms)

prepend_unless_unitless(a, p) == IF IsUnitless(a) THEN p ELSE prepend(a, p)

\* multiply_with<A, B>, A a static_product
RECURSIVE static_multiply_with(_, _)
static_multiply_with(A, B) ==
  IF IsProduct(B)
    THEN IF B.terms = <<>> THEN A
         ELSE static_multiply_with(static_multiply_with(A, Head(B.terms)),
                                   Product(Tail(B.terms)))
  ELSE IF IsExp(B)
    THEN IF A.terms = <<>> THEN Product(<<B>>)
         ELSE IF IsExp(Head(A.terms)) /\ Head(A.terms).base = B.base
           THEN prepend(Exp(B.base, Head(A.terms).exponent + B.exponent),
                        Product(Tail(A.terms)))
         ELSE prepend(Head(A.terms),
                      static_multiply_with(Product(Tail(A.terms)), B))
  ELSE static_multiply_with(A, Exp(B, 1))

\* divide_by<A, B>, A a static_product
RECURSIVE static_divide_by(_, _)
static_divide_by(A, B) ==
  IF IsProduct(B)
    THEN IF B.terms = <<>> THEN A
         ELSE static_divide_by(static_divide_by(A, Head(B.terms)),
                               Product(Tail(B.terms)))
  ELSE IF IsExp(B)
    THEN IF A.terms = <<>> THEN Product(<<Exp(B.base, -B.exponent)>>)
         ELSE IF IsExp(Head(A.terms)) /\ Head(A.terms).base = B.base
           THEN prepend(Exp(B.base, Head(A.terms).exponent - B.exponent),
                        Product(Tail(A.terms)))
         ELSE prepend(Head(A.terms),
                      static_divide_by(Product(Tail(A.terms)), B))
  ELSE static_divide_by(A, Exp(B, 1))

\* simplify<T>, simplify_terms<T> and simplify_product<T>
simplify_product(T) ==
  IF IsProduct(T) /\ T.terms = <<>> THEN unitless
  ELSE IF IsProduct(T) /\ Len(T.terms) = 1 THEN T.terms[1]
  ELSE T

RECURSIVE static_simplify(_)
RECURSIVE simplify_terms(_)
simplify_terms(T) ==
  IF T.terms = <<>> THEN Product(<<>>)
  ELSE prepend_unless_unitless(static_simplify(Head(T.terms)),
                               simplify_terms(Product(Tail(T.terms))))

static_simplify(T) ==
  IF IsError(T) THEN T
  ELSE IF IsExp(T) /\ T.exponent = 0 THEN unitless
  ELSE IF IsExp(T) /\ T.exponent = 1 THEN T.base
  ELSE IF IsProduct(T) THEN simplify_product(simplify_terms(T))
  ELSE T

canonicalize(T) == static_multiply_with(Product(<<>>), T)

\* multiply<A, B> and divide<A, B>
multiply(A, B) == static_simplify(static_multiply_with(canonicalize(A), B))

divide(A, B) == static_simplify(static_divide_by(canonicalize(A), B))

\* static_root_helper<A, Exponent>: a failed static_assert, a division by zero
\* in a constant expression and a missing specialization all end the build
RECURSIVE static_root_helper(_, _)
static_root_helper(A, Exponent) ==
  IF IsExp(A)
    THEN IF Exponent = 0 \/ CRem(A.exponent, Exponent) # 0
           THEN Error("compile_error")
         ELSE Exp(A.base, CDiv(A.exponent, Exponent))
  ELSE IF IsProduct(A)
    THEN IF A.terms = <<>> THEN Product(<<>>)
         ELSE LET first_root == static_root_helper(Head(A.terms), Exponent)
                  next_root  == static_root_helper(Product(Tail(A.terms)),
                                                   Exponent)
              IN  IF IsError(first_root) THEN first_root
                  ELSE IF IsError(next_root) THEN next_root
                  ELSE prepend(first_root, next_root)
  ELSE Error("compile_error")

static_root(Base, Exponent) ==
  static_simplify(static_root_helper(canonicalize(Base), Exponent))

-----------------------------------------------------------------------------
(* The numeric payload T of a conversion and of a quantity, evaluated in    *)
(* exact arithmetic: a fraction n / d of mathematical integers in lowest    *)
(* terms with d > 0.                                                        *)

RECURSIVE ValGcd(_, _)
ValGcd(a, b) == IF b = 0 THEN a ELSE ValGcd(b, a % b)

Val(n, d) ==
  LET s == IF d < 0 THEN -1 ELSE 1
      g == ValGcd(MathAbs(n), MathAbs(d))
  IN  [n |-> (s * n) \div g, d |-> (s * d) \div g]

\* a * b, the common factors removed before the products are formed
ValMul(a, b) ==
  LET g1 == ValGcd(MathAbs(a.n), b.d)
      g2 == ValGcd(MathAbs(b.n), a.d)
  IN  Val((a.n \div g1) * (b.n \div g2), (a.d \div g2) * (b.d \div g1))

\* a / b, b non-zero
ValDiv(a, b) == ValMul(a, Val(b.d, b.n))

\* a + b over the least common denominator
ValAdd(a, b) ==
  LET g == ValGcd(a.d, b.d)
  IN  Val(a.n * (b.d \div g) + b.n * (a.d \div g), a.d * (b.d \div g))

ValSub(a, b) == ValAdd(a, Val(-b.n, b.d))

-----------------------------------------------------------------------------
(* Section [convert] *)

\* rational::convert_to<T>: T(m_numerator) / T(m_denominator)
convert_to(r) == ValDiv(Val(r.num, 1), Val(r.den, 1))

\* a faulty conversion: the origin of the new unit is not subtracted
conversion_keeping(old_magnitude, old_origin, new_magnitude, new_origin) ==
  [kind |-> "conversion",
   m_multiplier |-> convert_to(RatDiv(old_magnitude, new_magnitude)),
   m_offset     |-> IF old_origin.has_value
                      THEN convert_to(RatDiv(old_origin.value, new_magnitude))
                    ELSE Val(0, 1)]

\* conversion<T>::conversion(old_magnitude, old_origin, new_magnitude,
\* new_origin)
conversion(old_magnitude, old_origin, new_magnitude, new_origin) ==
  LET offset0 == Val(0, 1)
      offset1 == IF old_origin.has_value
                   THEN ValAdd(offset0,
                          convert_to(RatDiv(old_origin.value, new_magnitude)))
                 ELSE offset0
      offset2 == IF new_origin.has_value
                   THEN ValSub(offset1,
                          convert_to(RatDiv(new_origin.value, new_magnitude)))
                 ELSE offset1
  IN  [kind         |-> "conversion",
       m_multiplier |-> convert_to(RatDiv(old_magnitude, new_magnitude)),
       m_offset     |-> offset2]

\* conversion<T>::conversion(unit const& from, unit const& to): the virtual
\* magnitude() and origin() of both units, nothing else is looked at
dynamic_conversion(from, to) ==
  conversion(magnitude(from), origin(from), magnitude(to), origin(to))

\* a faulty operator(): the offset is not added
conversion_call_without_offset(c, old_value) ==
  ValMul(old_value, c.m_multiplier)

\* conversion<T>::operator()
conversion_call(c, old_value) ==
  ValAdd(ValMul(old_value, c.m_multiplier), c.m_offset)

\* conversion<T>(From(), To()): the units' virtual magnitude() and origin()
\* are those of crtp, which return the static members
crtp_conversion(From, To) ==
  conversion(static_magnitude(From), static_origin(From),
             static_magnitude(To), static_origin(To))

\* static_conversion<T, From, To>, a constexpr variable
static_conversion(From, To) ==
  IF IsConstantOrigin(From) /\ IsConstantOrigin(To)
    THEN crtp_conversion(From, To)
  ELSE Error("compile_error")

-----------------------------------------------------------------------------
(* Section [quantity]: a quantity with a compile-time unit is its value and *)
(* its unit type.                                                           *)

quantity(v, Unit) == [kind |-> "quantity", value |-> v, unit |-> Unit]

\* quantity<T, Unit>::quantity(quantity<T2, Unit2> const& other).  The first
\* overload copies the value when the units are equal.  The initialiser of
\* the second overload, static_conversion<T2, Unit2, Unit>()(other.value()),
\* calls the conversion object without an argument; conversion<T> has no such
\* operator(), so instantiating the overload ends the build for every pair
\* of units that are not equal.
quantity_from(Unit, other) ==
  IF ~(IsConstantOrigin(Unit) /\ IsConstantOrigin(other.unit))
    THEN Error("compile_error")
  ELSE IF are_equal(Unit, other.unit) THEN quantity(other.value, Unit)
  ELSE Error("compile_error")

\* a faulty operator*: the values are added
QuantityMulAdding(a, b) ==
  quantity(ValAdd(a.value, b.value), multiply(a.unit, b.unit))

\* operator*(quantity const&, quantity const&)
QuantityMul(a, b) ==
  quantity(ValMul(a.value, b.value), multiply(a.unit, b.unit))

\* operator/(quantity const&, quantity const&)
QuantityDiv(a, b) ==
  quantity(ValDiv(a.value, b.value), divide(a.unit, b.unit))

\* make_relative<T>
make_relative(T) == Prefixed("make_relative", T)

\* a faulty operator+: the units of the operands are not compared
QuantityAddAnyUnit(a, b) == quantity(ValAdd(a.value, b.value), a.unit)

\* operator+(quantity<T1, Unit> const&, quantity<T2, Unit> const&): both
\* operands have the one unit type Unit, and is_relative<Unit> enables it
QuantityAdd(a, b) ==
  IF a.unit # b.unit THEN Error("compile_error")
  ELSE IF ~IsConstantOrigin(a.unit) THEN Error("compile_error")
  ELSE IF is_relative(a.unit) THEN quantity(ValAdd(a.value, b.value), a.unit)
  ELSE Error("compile_error")

\* operator-(quantity<T1, Unit> const&, quantity<T2, Unit> const&): one
\* overload enabled by is_relative<Unit>, one by is_absolute<Unit>
QuantitySub(a, b) ==
  IF a.unit # b.unit THEN Error("compile_error")
  ELSE IF ~IsConstantOrigin(a.unit) THEN Error("compile_error")
  ELSE IF is_relative(a.unit) THEN quantity(ValSub(a.value, b.value), a.unit)
  ELSE quantity(ValSub(a.value, b.value), make_relative(a.unit))

\* the payloads std::sqrt and std::cbrt are applied to: the fractions with an
\* exact root
RootValues == 0 .. 4

HasExactRoot(v, k) ==
  \E a \in RootValues : \E b \in RootValues \ {0} : a ^ k = v.n /\ b ^ k = v.d

ValRoot(v, k) ==
  LET a == CHOOSE a \in RootValues : a ^ k = v.n
      b == CHOOSE b \in RootValues \ {0} : b ^ k = v.d
  IN  Val(a, b)

\* sqrt(q) and cbrt(q): the unit is static_sqrt<Unit>, static_cbrt<Unit>
quantity_root(q, k) ==
  LET Unit == static_root(q.unit, k)
  IN  IF IsError(Unit) THEN Unit ELSE quantity(ValRoot(q.value, k), Unit)

quantity_sqrt(q) == quantity_root(q, 2)

quantity_cbrt(q) == quantity_root(q, 3)

\* the value a function of <cmath> returns, left uninterpreted
Applied(f, args) == [fn |-> f, args |-> args]

UnitlessUnaryFunctions ==
  {"exp", "exp2", "log", "log10", "log2", "erf", "erfc", "tgamma", "lgamma"}

UnaryTrigFunctions == {"sin", "cos", "tan", "sinh", "cosh", "tanh"}

UnaryInverseTrigFunctions ==
  {"asin", "acos", "atan", "asinh", "acosh", "atanh"}

UnitlessBinaryFunctions == {"pow", "copysign"}

\* FUNC(quantity<T, unitless> const&): the parameter is deduced, so the unit
\* of the argument has to be the type unitless itself
unitless_unary_function(f, q) ==
  IF q.unit = unitless THEN quantity(Applied(f, <<q.value>>), unitless)
  ELSE Error("compile_error")

\* FUNC(quantity<T, radian> const&)
unary_trig_function(f, q) ==
  IF q.unit = Named("radian")
    THEN quantity(Applied(f, <<q.value>>), unitless)
  ELSE Error("compile_error")

\* FUNC(quantity<T, unitless> const&) returning radians
unary_inverse_trig_function(f, q) ==
  IF q.unit = unitless
    THEN quantity(Applied(f, <<q.value>>), Named("radian"))
  ELSE Error("compile_error")

\* FUNC(quantity<T, unitless> const&, quantity<T, unitless> const&)
unitless_binary_function(f, a, b) ==
  IF a.unit = unitless /\ b.unit = unitless
    THEN quantity(Applied(f, <<a.value, b.value>>), unitless)
  ELSE Error("compile_error")

atan2(a, b) ==
  IF a.unit = unitless /\ b.unit = unitless
    THEN quantity(Applied("atan2", <<a.value, b.value>>), Named("radian"))
  ELSE Error("compile_error")

-----------------------------------------------------------------------------
(* The unit algebra state machine: the same operations are applied to a     *)
(* dynamic_unit and to the static unit type that describes the same unit.   *)

meter == Named("meter")
second == Named("second")
gram == Named("gram")
radian == Named("radian")
celsius == Named("celsius")
kelvin == Named("kelvin")

\* the units a sequence of operations starts from and is applied with
NamedUnits ==
  {unitless, meter, second, gram, radian, celsius,
   Prefixed("kilo", meter), Prefixed("milli", Prefixed("kilo", meter))}

\* the operands of the binary operations
UnitOperands ==
  {unitless, meter, second, radian, celsius,
   Prefixed("milli", Prefixed("kilo", meter)),
   Exp(meter, 2), Exp(Exp(meter, 1), 1),
   Product(<<meter, Exp(second, -1)>>)}

PowerUnits ==
  {Exp(meter, 2), Exp(second, -1), Exp(meter, 1), Exp(second, 0),
   Exp(Exp(meter, 1), 1), Exp(Exp(meter, 2), 1), Exp(celsius, 1)}

ProductUnits ==
  {Product(<<Exp(meter, 1), Exp(second, -2)>>),
   Product(<<meter, Exp(second, -1)>>),
   Product(<<Exp(gram, 1)>>)}

UnitInputs == NamedUnits \cup PowerUnits \cup ProductUnits

RootExponents == {-2, -1, 1, 2, 3}

\* the int passed to root
RootArguments == RootExponents \cup {0}

\* the dimension state machine at rest
DimIdle ==
  /\ dimD = dimensionless
  /\ dimE = dimensionless
  /\ dimA = 0
  /\ dimB = 0
  /\ dimOp = "none"
  /\ dimLhs = dimensionless
  /\ dimRhs = dimensionless

\* the argument of a step that takes none
NoArgument == [kind |-> "none"]

\* an empty dynamic_product on which nothing was called: the state after
\* construction
ProductIdle ==
  /\ prod = Product(<<>>)
  /\ prodPrev = Product(<<>>)
  /\ prodOp = "none"
  /\ prodArg = NoArgument
  /\ prodIn = <<>>
  /\ prodOut = Named("unitless")
  /\ prodSteps = 0
  /\ sprod = Product(<<>>)
  /\ sprodPrev = Product(<<>>)
  /\ sprodOut = Named("unitless")

\* a free store with nothing in it
OwnIdle ==
  /\ heap = [cells |-> <<>>, thrown |-> FALSE]
  /\ held = <<>>
  /\ heldPrev = <<>>
  /\ ownOp = "none"
  /\ ownTarget = 0
  /\ ownSteps = 0

\* no law of the rational arithmetic evaluated
LawIdle ==
  /\ lawA = [num |-> 1, den |-> 1]
  /\ lawB = [num |-> 1, den |-> 1]
  /\ lawE = 0
  /\ lawF = 0
  /\ lawOp = "none"
  /\ lawLhs = [num |-> 1, den |-> 1]
  /\ lawRhs = [num |-> 1, den |-> 1]
  /\ lawUB = FALSE
  /\ lawPc = "value"

\* no for_each called
ForEachIdle ==
  /\ feN = 0
  /\ fePolicy = "none"
  /\ fePc = "idle"
  /\ feFirst = 0
  /\ feApplied = <<>>
  /\ feOrdered = TRUE
  /\ feBlocks = 0
  /\ feRan = {}

\* no fixed-point sum started
FixedPointIdle ==
  /\ m_values = <<>>
  /\ local_max_exponent = <<>>
  /\ global_max_exponent = <<>>
  /\ local_sum = <<>>
  /\ global_sum = <<>>
  /\ fpPc = <<>>
  /\ fpSeen = <<>>
  /\ fpFolded = <<>>
  /\ fpConvertedAt = <<>>
  /\ fpResult = <<>>

\* the exponent of a root, as the argument of a step
RootArgument(k) == [kind |-> "root", exponent |-> k]

\* the quantity state machine at rest
QuantityIdle ==
  /\ qty = [kind |-> "quantity", value |-> [n |-> 0, d |-> 1],
            unit |-> Named("unitless")]
  /\ qDyn = Named("unitless")
  /\ qtyPrev = [kind |-> "quantity", value |-> [n |-> 0, d |-> 1],
                unit |-> Named("unitless")]
  /\ qDynPrev = Named("unitless")
  /\ qOp = "none"
  /\ qArg = NoArgument
  /\ qSteps = 0

\* the rational state machine at rest
RatIdle ==
  /\ rat = rational1(1)
  /\ ratPc = "value"
  /\ ratOp = "none"
  /\ ratUB = FALSE
  /\ ratSteps = 0

UnitInit ==
  /\ \E U \in UnitInputs :
       /\ dyn = U
       /\ stat = U
       /\ dynPrev = U
       /\ statPrev = U
  /\ uOp = "none"
  /\ uArg = NoArgument
  /\ uSteps = 0

UnitReady ==
  /\ uSteps < MaxUnitSteps
  /\ ~IsError(dyn)
  /\ ~IsTrapped(dyn)
  /\ ~IsError(stat)

UnitReturn(d, s, op, arg) ==
  /\ dyn' = d
  /\ stat' = s
  /\ dynPrev' = dyn
  /\ statPrev' = stat
  /\ uOp' = op
  /\ uArg' = arg
  /\ uSteps' = uSteps + 1
  /\ UNCHANGED ratVars
  /\ UNCHANGED qtyVars
  /\ UNCHANGED dimVars
  /\ UNCHANGED prodVars
  /\ UNCHANGED ownVars
  /\ UNCHANGED lawVars
  /\ UNCHANGED feVars
  /\ UNCHANGED fpVars

\* a * b
UnitMultiply ==
  /\ UnitReady
  /\ \E B \in UnitOperands :
       UnitReturn(DynMul(dyn, B), multiply(stat, B), "multiply", B)

\* a / b
UnitDivide ==
  /\ UnitReady
  /\ \E B \in UnitOperands :
       UnitReturn(DynDiv(dyn, B), divide(stat, B), "divide", B)

\* root(a, k) and static_root<A, k>
UnitRoot ==
  /\ UnitReady
  /\ \E k \in RootArguments :
       \E d \in RootOutcomes(dyn, k) :
         UnitReturn(d, static_root(stat, k), "root", RootArgument(k))

\* a.simplify() and simplify_t<A>
UnitSimplify ==
  /\ UnitReady
  /\ UnitReturn(simplify(dyn), static_simplify(stat), "simplify", NoArgument)

\* (a * b) / b
UnitCancel ==
  /\ UnitReady
  /\ \E B \in UnitOperands :
       UnitReturn(DynDiv(DynMul(dyn, B), B), divide(multiply(stat, B), B),
                  "cancel", B)

\* root(dynamic_exp(a, e), e) and static_root<static_pow<A, e>, e>
UnitRootOfPow ==
  /\ UnitReady
  /\ \E e \in RootExponents :
       UnitReturn(root(Exp(dyn, e), e), static_root(Exp(stat, e), e),
                  "root_of_pow", RootArgument(e))

UnitNext ==
  \/ UnitMultiply
  \/ UnitDivide
  \/ UnitRoot
  \/ UnitSimplify
  \/ UnitCancel
  \/ UnitRootOfPow

\* a run of the unit algebra: the other two state machines stay at rest
InitUnit == UnitInit /\ RatIdle /\ QuantityIdle /\ DimIdle /\ ProductIdle
    /\ OwnIdle /\ LawIdle /\ ForEachIdle /\ FixedPointIdle

SpecUnit == InitUnit /\ [][UnitNext]_vars

-----------------------------------------------------------------------------
(* The rational state machine: a rational is constructed from two integers  *)
(* with a non-zero denominator, then inverse, operator*, operator/ and pow  *)
(* are applied to it.                                                       *)

RatInputs ==
  {MinInt, MinInt + 1, -6, -4, -3, -2, -1, 0, 1, 2, 3, 4, 6,
   2 ^ (IntBits \div 2), MaxInt - 1, MaxInt}

RatSmall == {-6, -4, -3, -2, -1, 1, 2, 3, 4, 6}

\* the second operand of a binary operation, built from small integers
RatOperands == {rational(n, d) : n \in RatSmall \cup {0, 2 ^ (IntBits \div 2)},
                                 d \in {1, 2, 3, 2 ^ (IntBits \div 2)}}

\* the unit algebra at rest
UnitIdle ==
  /\ dyn = Named("unitless")
  /\ stat = Named("unitless")
  /\ dynPrev = Named("unitless")
  /\ statPrev = Named("unitless")
  /\ uOp = "none"
  /\ uArg = NoArgument
  /\ uSteps = 0

RatInit ==
  /\ rat = rational1(1)
  /\ ratPc = "value"
  /\ ratOp = "none"
  /\ ratUB = FALSE
  /\ ratSteps = 0

RatReturn(value, ub, op) ==
  /\ \E outcome \in UBOutcomes(ub) : ratPc' = outcome
  /\ rat' = value
  /\ ratOp' = op
  /\ ratUB' = (ratUB \/ ub)
  /\ ratSteps' = ratSteps + 1
  /\ UNCHANGED unitVars
  /\ UNCHANGED qtyVars
  /\ UNCHANGED dimVars
  /\ UNCHANGED prodVars
  /\ UNCHANGED ownVars
  /\ UNCHANGED lawVars
  /\ UNCHANGED feVars
  /\ UNCHANGED fpVars

\* the operations on a zero denominator or a zero rational; they end the run
ZeroOperations == {"construct_zero", "inverse_zero", "over_zero"}

RatReady ==
  /\ ratPc = "value"
  /\ ratSteps < MaxRatSteps
  /\ ratOp \notin ZeroOperations

RatConstruct ==
  /\ RatReady
  /\ \E n \in RatInputs, d \in RatInputs \ {0} :
       RatReturn(rational(n, d), rationalUB(n, d), "construct")

RatInverse ==
  /\ RatReady
  /\ rat.num # 0
  /\ RatReturn(inverse(rat), inverseUB(rat), "inverse")

RatTimes ==
  /\ RatReady
  /\ \E b \in RatOperands :
       RatReturn(RatMul(rat, b), RatMulUB(rat, b), "times")

RatOver ==
  /\ RatReady
  /\ \E b \in RatOperands :
       /\ b.num # 0
       /\ RatReturn(RatDiv(rat, b), RatDivUB(rat, b), "over")

RatPower ==
  /\ RatReady
  /\ rat.num # 0
  /\ \E e \in (-MaxPow) .. MaxPow :
       RatReturn(RatPow(rat, e), RatPowUB(rat, e), "pow")

\* rational(n, 0)
RatConstructZero ==
  /\ RatReady
  /\ \E n \in RatSmall \cup {0} :
       RatReturn(rational(n, 0), rationalUB(n, 0), "construct_zero")

\* inverse(a), a zero
RatInverseZero ==
  /\ RatReady
  /\ rat.num = 0
  /\ RatReturn(inverse(rat), inverseUB(rat), "inverse_zero")

\* a / b, b zero
RatOverZero ==
  /\ RatReady
  /\ \E b \in RatOperands :
       /\ b.num = 0
       /\ RatReturn(RatDiv(rat, b), RatDivUB(rat, b), "over_zero")

RatNext ==
  \/ RatConstruct
  \/ RatInverse
  \/ RatTimes
  \/ RatOver
  \/ RatPower
  \/ RatConstructZero
  \/ RatInverseZero
  \/ RatOverZero

\* a run of the rational state machine
InitRat == RatInit /\ UnitIdle /\ QuantityIdle /\ DimIdle /\ ProductIdle
    /\ OwnIdle /\ LawIdle /\ ForEachIdle /\ FixedPointIdle

SpecRat == InitRat /\ [][RatNext]_vars

-----------------------------------------------------------------------------
(* The quantity state machine: a quantity is multiplied and divided by      *)
(* other quantities, the dynamic algebra computing the unit alongside; then *)
(* it is converted to another unit, by static_conversion, by a conversion   *)
(* built from two run-time units, or by the converting constructor.         *)

fahrenheit == Named("fahrenheit")
percent == Named("percent")
watt == Named("watt")
joule == Named("joule")
thou == Prefixed("milli", Named("inch"))
micrometer == Prefixed("micro", meter)
meters_per_second == Product(<<meter, Exp(second, -1)>>)

\* the quantities a run starts from
QuantityInputs ==
  {quantity(Val(0, 1), kelvin), quantity(Val(0, 1), celsius),
   quantity(Val(502, 5), fahrenheit), quantity(Val(-40, 1), celsius),
   quantity(Val(1, 1), thou), quantity(Val(127, 5), micrometer),
   quantity(Val(80, 1), percent), quantity(Val(4, 5), unitless),
   quantity(Val(1, 1), watt), quantity(Val(2, 1), joule),
   quantity(Val(1, 1), meter), quantity(Val(2, 1), meter),
   quantity(Val(2, 1), second), quantity(Val(3, 1), radian),
   quantity(Val(1, 2), meters_per_second),
   quantity(Val(2, 1), Prefixed("milli", Prefixed("kilo", meter)))}

\* the second operand of a multiplication or division
QuantityOperands ==
  {quantity(Val(2, 1), second), quantity(Val(2, 1), meter),
   quantity(Val(1, 2), unitless), quantity(Val(3, 1), radian),
   quantity(Val(-1, 1), Prefixed("milli", Prefixed("kilo", meter))),
   quantity(Val(2, 1), Exp(second, -1)),
   quantity(Val(4, 1), Exp(meter, 2))}

\* the unit types a quantity is converted to
TargetUnits ==
  {unitless, meter, second, radian, kelvin, celsius, fahrenheit, percent,
   thou, micrometer, joule, Prefixed("milli", Prefixed("kilo", meter)),
   Prefixed("make_relative", celsius)}

\* the run-time units a conversion(from, to) is built to
DynamicTargetUnits == {unitless, meter, second, kelvin}

\* the precondition of a conversion between two unit types
StaticPrecondition(From, To) ==
  /\ DimEq(static_dimension(From), static_dimension(To))
  /\ is_absolute(From) = is_absolute(To)

\* the precondition of a conversion between two run-time units
DynamicPrecondition(from, to) ==
  /\ DimEq(dimension(from), dimension(to))
  /\ origin(from).has_value = origin(to).has_value

QuantityInit ==
  /\ \E q \in QuantityInputs :
       /\ qty = q
       /\ qDyn = q.unit
       /\ qtyPrev = q
       /\ qDynPrev = q.unit
  /\ qOp = "none"
  /\ qArg = NoArgument
  /\ qSteps = 0

QuantityReturn(q, d, op, arg) ==
  /\ qty' = q
  /\ qDyn' = d
  /\ qtyPrev' = qty
  /\ qDynPrev' = qDyn
  /\ qOp' = op
  /\ qArg' = arg
  /\ qSteps' = qSteps + 1
  /\ UNCHANGED ratVars
  /\ UNCHANGED unitVars
  /\ UNCHANGED dimVars
  /\ UNCHANGED prodVars
  /\ UNCHANGED ownVars
  /\ UNCHANGED lawVars
  /\ UNCHANGED feVars
  /\ UNCHANGED fpVars

\* a conversion ends the run, and so does a build that failed
QuantityReady ==
  /\ qSteps < MaxQuantitySteps
  /\ ~IsError(qty)
  /\ qOp \in {"none", "multiply", "divide", "add", "subtract", "sqrt", "cbrt"}

\* the second operand of an addition or subtraction: of the unit of the
\* first, or seconds
AdditionOperands(Unit) ==
  {quantity(Val(1, 2), Unit), quantity(Val(3, 1), second)}

\* a * b
QuantityMultiply ==
  /\ QuantityReady
  /\ \E b \in QuantityOperands :
       QuantityReturn(QuantityMul(qty, b), DynMul(qDyn, b.unit),
                      "multiply", b)

\* a / b
QuantityDivide ==
  /\ QuantityReady
  /\ \E b \in QuantityOperands :
       QuantityReturn(QuantityDiv(qty, b), DynDiv(qDyn, b.unit),
                      "divide", b)

\* a + b
QuantityPlus ==
  /\ QuantityReady
  /\ \E b \in AdditionOperands(qty.unit) :
       QuantityReturn(QuantityAdd(qty, b), qDyn, "add", b)

\* a - b
QuantityMinus ==
  /\ QuantityReady
  /\ \E b \in AdditionOperands(qty.unit) :
       LET d == QuantitySub(qty, b)
       IN  QuantityReturn(d, IF IsError(d) THEN qDyn ELSE d.unit,
                          "subtract", b)

\* sqrt(a)
QuantitySqrt ==
  /\ QuantityReady
  /\ HasExactRoot(qty.value, 2)
  /\ LET r == quantity_sqrt(qty)
     IN  QuantityReturn(r, IF IsError(r) THEN qDyn ELSE r.unit, "sqrt",
                        RootArgument(2))

\* cbrt(a)
QuantityCbrt ==
  /\ QuantityReady
  /\ HasExactRoot(qty.value, 3)
  /\ LET r == quantity_cbrt(qty)
     IN  QuantityReturn(r, IF IsError(r) THEN qDyn ELSE r.unit, "cbrt",
                        RootArgument(3))

\* the second argument of pow, copysign and atan2
BinaryOperands ==
  {quantity(Val(1, 2), unitless), quantity(Val(2, 1), Named("radian"))}

\* exp(a), exp2(a), log(a), ..., lgamma(a)
QuantityUnitlessFunction ==
  /\ QuantityReady
  /\ \E f \in UnitlessUnaryFunctions :
       LET r == unitless_unary_function(f, qty)
       IN  QuantityReturn(r, IF IsError(r) THEN qDyn ELSE r.unit, f, NoArgument)

\* sin(a), cos(a), ..., tanh(a)
QuantityTrigFunction ==
  /\ QuantityReady
  /\ \E f \in UnaryTrigFunctions :
       LET r == unary_trig_function(f, qty)
       IN  QuantityReturn(r, IF IsError(r) THEN qDyn ELSE r.unit, f, NoArgument)

\* asin(a), acos(a), ..., atanh(a)
QuantityInverseTrigFunction ==
  /\ QuantityReady
  /\ \E f \in UnaryInverseTrigFunctions :
       LET r == unary_inverse_trig_function(f, qty)
       IN  QuantityReturn(r, IF IsError(r) THEN qDyn ELSE r.unit, f, NoArgument)

\* pow(a, b), copysign(a, b)
QuantityBinaryFunction ==
  /\ QuantityReady
  /\ \E f \in UnitlessBinaryFunctions : \E b \in BinaryOperands :
       LET r == unitless_binary_function(f, qty, b)
       IN  QuantityReturn(r, IF IsError(r) THEN qDyn ELSE r.unit, f, b)

\* atan2(a, b)
QuantityAtan2 ==
  /\ QuantityReady
  /\ \E b \in BinaryOperands :
       LET r == atan2(qty, b)
       IN  QuantityReturn(r, IF IsError(r) THEN qDyn ELSE r.unit, "atan2", b)

\* static_conversion<T, Unit, To>(a.value())
QuantityStaticConvert ==
  /\ QuantityReady
  /\ \E To \in TargetUnits :
       /\ StaticPrecondition(qty.unit, To)
       /\ LET c == static_conversion(qty.unit, To)
          IN  QuantityReturn(
                IF IsError(c) THEN c
                ELSE quantity(conversion_call(c, qty.value), To),
                To, "static_conversion", To)

\* conversion<T>(Unit(), To())(a.value()), for the units a conversion is
\* meant for
QuantityConvert ==
  /\ QuantityReady
  /\ \E To \in TargetUnits :
       /\ StaticPrecondition(qty.unit, To)
       /\ QuantityReturn(
            quantity(conversion_call(crtp_conversion(qty.unit, To),
                                     qty.value), To),
            To, "convert", To)

\* conversion<T>(To(), Unit())(conversion<T>(Unit(), To())(a.value()))
QuantityRoundTrip ==
  /\ QuantityReady
  /\ \E To \in TargetUnits :
       /\ StaticPrecondition(qty.unit, To)
       /\ QuantityReturn(
            quantity(conversion_call(crtp_conversion(To, qty.unit),
                       conversion_call(crtp_conversion(qty.unit, To),
                                       qty.value)), qty.unit),
            qDyn, "round_trip", To)

\* conversion<T>(from, to)(a.value()) with two run-time units
QuantityDynamicConvert ==
  /\ QuantityReady
  /\ \E to \in DynamicTargetUnits :
       QuantityReturn(
         quantity(conversion_call(dynamic_conversion(qDyn, to), qty.value),
                  to),
         to, "dynamic_conversion", to)

\* quantity<T, Unit>(a)
QuantityConstruct ==
  /\ QuantityReady
  /\ \E Unit \in TargetUnits :
       QuantityReturn(quantity_from(Unit, qty), Unit, "construct", Unit)

QuantityNext ==
  \/ QuantityMultiply
  \/ QuantityDivide
  \/ QuantityPlus
  \/ QuantityMinus
  \/ QuantitySqrt
  \/ QuantityCbrt
  \/ QuantityUnitlessFunction
  \/ QuantityTrigFunction
  \/ QuantityInverseTrigFunction
  \/ QuantityBinaryFunction
  \/ QuantityAtan2
  \/ QuantityStaticConvert
  \/ QuantityConvert
  \/ QuantityRoundTrip
  \/ QuantityDynamicConvert
  \/ QuantityConstruct

\* ---------------------------------------------------------------------
\* The dimension state machine: the laws of operator*, operator/ and pow
\* evaluated on two dimensions and two integers
\* ---------------------------------------------------------------------

DimensionInputs ==
  {dimensionless, time, length, temperature,
   Dim(-3, 2, 1, 0, 0, 0, 0), Dim(1, -1, 0, 2, 0, 0, -2),
   Dim(MaxExponent, MinExponent, 1, 0, -1, 3, 0)}

ExponentInputs == {MinExponent, -2, -1, 0, 1, 3, MaxExponent}

DimInit ==
  /\ dimD \in DimensionInputs
  /\ dimE \in DimensionInputs
  /\ dimA \in ExponentInputs
  /\ dimB \in ExponentInputs
  /\ dimOp = "none"
  /\ dimLhs = dimensionless
  /\ dimRhs = dimensionless

DimReturn(op, lhs, rhs) ==
  /\ dimOp = "none"
  /\ dimOp' = op
  /\ dimLhs' = lhs
  /\ dimRhs' = rhs
  /\ UNCHANGED <<dimD, dimE, dimA, dimB>>
  /\ UNCHANGED ratVars
  /\ UNCHANGED unitVars
  /\ UNCHANGED qtyVars
  /\ UNCHANGED prodVars
  /\ UNCHANGED ownVars
  /\ UNCHANGED lawVars
  /\ UNCHANGED feVars
  /\ UNCHANGED fpVars

\* D * pow(D, -1) and dimensionless
DimInverse ==
  DimReturn("inverse", DimMul(dimD, DimPow(dimD, -1)), dimensionless)

\* pow(D, a + b) and pow(D, a) * pow(D, b)
DimPowerOfSum ==
  DimReturn("power_of_sum", DimPow(dimD, WrapInt(dimA + dimB)),
            DimMul(DimPow(dimD, dimA), DimPow(dimD, dimB)))

\* D * E and E * D
DimCommute == DimReturn("commute", DimMul(dimD, dimE), DimMul(dimE, dimD))

\* D * dimensionless and D
DimIdentity == DimReturn("identity", DimMul(dimD, dimensionless), dimD)

\* D / E and D * pow(E, -1)
DimQuotient ==
  DimReturn("quotient", DimDiv(dimD, dimE), DimMul(dimD, DimPow(dimE, -1)))

DimNext ==
  \/ DimInverse
  \/ DimPowerOfSum
  \/ DimCommute
  \/ DimIdentity
  \/ DimQuotient

InitDimension ==
  DimInit /\ RatIdle /\ UnitIdle /\ QuantityIdle /\ ProductIdle /\ OwnIdle
    /\ LawIdle /\ ForEachIdle /\ FixedPointIdle

SpecDimension == InitDimension /\ [][DimNext]_vars

\* ---------------------------------------------------------------------
\* The product state machine: multiply_with, divide_by and simplify called
\* on one dynamic_product, empty at first
\* ---------------------------------------------------------------------

\* the units multiply_with and divide_by are called with: named units, power
\* nodes and products
ProductOperands ==
  {unitless, meter, radian, Prefixed("milli", Prefixed("kilo", meter)),
   Exp(second, -1), Exp(Exp(meter, 1), 2),
   Product(<<meter, Exp(second, -1)>>)}

\* the terms a call hands to multiply_with(dynamic_exp const&), in order,
\* sign = -1 for divide_by
RECURSIVE IncomingTerms(_, _)
IncomingTerms(U, sign) ==
  IF IsProduct(U)
    THEN IF U.terms = <<>> THEN <<>>
         ELSE IncomingTerms(Head(U.terms), sign)
                \o IncomingTerms(Product(Tail(U.terms)), sign)
  ELSE IF IsExp(U) THEN <<[base |-> U.base, exponent |-> sign * U.exponent]>>
  ELSE <<[base |-> U, exponent |-> sign]>>

ProductReady == prodSteps < MaxProductSteps

ProductReturn(p, s, op, arg, incoming) ==
  /\ prod' = p
  /\ prodPrev' = prod
  /\ sprod' = s
  /\ sprodPrev' = sprod
  /\ prodOp' = op
  /\ prodArg' = arg
  /\ prodIn' = prodIn \o incoming
  /\ prodSteps' = prodSteps + 1
  /\ UNCHANGED <<prodOut, sprodOut>>
  /\ UNCHANGED ratVars
  /\ UNCHANGED unitVars
  /\ UNCHANGED qtyVars
  /\ UNCHANGED dimVars
  /\ UNCHANGED ownVars
  /\ UNCHANGED lawVars
  /\ UNCHANGED feVars
  /\ UNCHANGED fpVars

\* prod.multiply_with(U) and multiply_with_t<sprod, U>
ProductMultiplyWith ==
  /\ ProductReady
  /\ \E U \in ProductOperands :
       ProductReturn(multiply_with(prod, U), static_multiply_with(sprod, U),
                     "multiply_with", U, IncomingTerms(U, 1))

\* prod.divide_by(U) and divide_by_t<sprod, U>
ProductDivideBy ==
  /\ ProductReady
  /\ \E U \in ProductOperands :
       ProductReturn(divide_by(prod, U), static_divide_by(sprod, U),
                     "divide_by", U, IncomingTerms(U, -1))

\* prod.simplify() and simplify_t<sprod>, which leave prod and sprod as they
\* are
ProductSimplify ==
  /\ prodOp # "simplify"
  /\ prodOut' = simplify(prod)
  /\ sprodOut' = static_simplify(sprod)
  /\ prodOp' = "simplify"
  /\ prodArg' = NoArgument
  /\ prodPrev' = prod
  /\ sprodPrev' = sprod
  /\ UNCHANGED <<prod, sprod, prodIn, prodSteps>>
  /\ UNCHANGED ratVars
  /\ UNCHANGED unitVars
  /\ UNCHANGED qtyVars
  /\ UNCHANGED dimVars
  /\ UNCHANGED ownVars
  /\ UNCHANGED lawVars
  /\ UNCHANGED feVars
  /\ UNCHANGED fpVars

ProductNext ==
  \/ ProductMultiplyWith
  \/ ProductDivideBy
  \/ ProductSimplify

InitProduct == ProductIdle /\ RatIdle /\ UnitIdle /\ QuantityIdle /\ DimIdle
    /\ OwnIdle /\ LawIdle /\ ForEachIdle /\ FixedPointIdle

SpecProduct == InitProduct /\ [][ProductNext]_vars

\* a run of the quantity state machine
InitQuantity ==
  QuantityInit /\ RatIdle /\ UnitIdle /\ DimIdle /\ ProductIdle /\ OwnIdle
    /\ LawIdle /\ ForEachIdle /\ FixedPointIdle

SpecQuantity == InitQuantity /\ [][QuantityNext]_vars

-----------------------------------------------------------------------------
(* Ownership of the run-time descriptions.  Every unit object lives in a    *)
(* cell of the free store; a dynamic_unit, the m_base of a dynamic_exp and   *)
(* each element of the m_terms of a dynamic_product hold a                   *)
(* std::unique_ptr<unit>, modelled as the address of the cell it points to.  *)
(* A store is the sequence of its cells and whether an exception was         *)
(* thrown; cells are never reused, so a destroyed temporary stays behind as  *)
(* a cell nothing points to.                                                 *)

ExpCell(b, e) == [kind |-> "exp", base |-> b, exponent |-> e]

ProductCell(ts) == [kind |-> "product", terms |-> ts]

\* std::make_unique: a new cell and its address
Allocate(M, cell) ==
  [m |-> [M EXCEPT !.cells = Append(@, cell)], a |-> Len(M.cells) + 1]

\* the description an address points to
RECURSIVE View(_, _)
View(cells, a) ==
  LET c == cells[a]
  IN  IF c.kind = "exp" THEN Exp(View(cells, c.base), c.exponent)
      ELSE IF c.kind = "product"
        THEN Product([i \in 1 .. Len(c.terms) |-> View(cells, c.terms[i])])
      ELSE c

\* the cells an address owns: its own and those of its base or terms
RECURSIVE Owned(_, _)
Owned(cells, a) ==
  LET c == cells[a]
  IN  IF c.kind = "exp" THEN {a} \cup Owned(cells, c.base)
      ELSE IF c.kind = "product"
        THEN {a} \cup UNION {Owned(cells, c.terms[i]) :
                               i \in 1 .. Len(c.terms)}
      ELSE {a}

\* a copy that hands out the address it was given
SharedCopy(M, a) == [m |-> M, a |-> a]

\* unit::copy: crtp::copy makes a new object of the unit class; the copy
\* constructors of dynamic_exp and dynamic_product copy m_base and every
\* element of m_terms with the copy constructor of dynamic_unit, which calls
\* copy on the pointee
RECURSIVE HeapCopy(_, _)
RECURSIVE HeapCopyTerms(_, _, _, _)
HeapCopyTerms(M, ts, i, copies) ==
  IF i > Len(ts) THEN [m |-> M, as |-> copies]
  ELSE LET r == HeapCopy(M, ts[i])
       IN  HeapCopyTerms(r.m, ts, i + 1, Append(copies, r.a))

HeapCopy(M, a) ==
  LET c == M.cells[a]
  IN  IF c.kind = "exp"
        THEN LET b == HeapCopy(M, c.base)
             IN  Allocate(b.m, ExpCell(b.a, c.exponent))
      ELSE IF c.kind = "product"
        THEN LET ts == HeapCopyTerms(M, c.terms, 1, <<>>)
             IN  Allocate(ts.m, ProductCell(ts.as))
      ELSE Allocate(M, c)

\* dynamic_product::push_back: the vector takes a copy of the term
HeapPushBack(M, p, term) ==
  LET r == HeapCopy(M, term)
  IN  [r.m EXCEPT !.cells[p] = ProductCell(Append(@.terms, r.a))]

\* push_back(new_exp), new_exp being the power of the base at address b: the
\* copy of a dynamic_exp copies its base
HeapPushBackExp(M, p, b, e) ==
  LET r == HeapCopy(M, b)
      new_exp == Allocate(r.m, ExpCell(r.a, e))
  IN  [new_exp.m EXCEPT
         !.cells[p] = ProductCell(Append(@.terms, new_exp.a))]

\* dynamic_product::multiply_with(dynamic_exp const&), new_exp having the base
\* at address b and the exponent e: the loop over m_terms from position i.
\* The assignment to existing_exp moves the base of a temporary dynamic_exp,
\* a copy of new_exp.base(), into the existing term.
RECURSIVE HeapMultiplyWithExpFrom(_, _, _, _, _)
HeapMultiplyWithExpFrom(M, p, b, e, i) ==
  LET ts == M.cells[p].terms
  IN  IF i > Len(ts) THEN HeapPushBackExp(M, p, b, e)
      ELSE IF M.cells[ts[i]].kind # "exp" THEN [M EXCEPT !.thrown = TRUE]
      ELSE IF UnitEq(View(M.cells, M.cells[ts[i]].base), View(M.cells, b))
        THEN LET r == HeapCopy(M, b)
             IN  [r.m EXCEPT !.cells[ts[i]] =
                               ExpCell(r.a, @.exponent + e)]
      ELSE HeapMultiplyWithExpFrom(M, p, b, e, i + 1)

HeapMultiplyWithExp(M, p, b, e) ==
  IF M.thrown THEN M ELSE HeapMultiplyWithExpFrom(M, p, b, e, 1)

\* divide_by(dynamic_exp const&): the temporary dynamic_exp(new_exp.base(),
\* -new_exp.exponent()) copies the base
HeapDivideByExp(M, p, b, e) ==
  LET r == HeapCopy(M, b) IN HeapMultiplyWithExp(r.m, p, r.a, -e)

\* multiply_with(named const&) and divide_by(named const&): the temporary
\* dynamic_exp(new_named, 1) copies the named unit
HeapMultiplyWithNamed(M, p, u) ==
  LET r == HeapCopy(M, u) IN HeapMultiplyWithExp(r.m, p, r.a, 1)

HeapDivideByNamed(M, p, u) ==
  LET r == HeapCopy(M, u) IN HeapDivideByExp(r.m, p, r.a, 1)

\* multiply_with(dynamic_unit const&) and divide_by(dynamic_unit const&) on
\* the product at address p, u the pointee of the argument; sign = -1 for
\* divide_by.  The overloads for a dynamic_product apply its terms in order.
RECURSIVE HeapApply(_, _, _, _)
RECURSIVE HeapApplyTerms(_, _, _, _, _)
HeapApplyTerms(M, p, ts, sign, i) ==
  IF i > Len(ts) THEN M
  ELSE HeapApplyTerms(HeapApply(M, p, ts[i], sign), p, ts, sign, i + 1)

HeapApply(M, p, u, sign) ==
  LET c == M.cells[u]
  IN  IF M.thrown THEN M
      ELSE IF c.kind = "product" THEN HeapApplyTerms(M, p, c.terms, sign, 1)
      ELSE IF c.kind = "exp"
        THEN IF sign = 1 THEN HeapMultiplyWithExp(M, p, c.base, c.exponent)
             ELSE HeapDivideByExp(M, p, c.base, c.exponent)
      ELSE IF sign = 1 THEN HeapMultiplyWithNamed(M, p, u)
      ELSE HeapDivideByNamed(M, p, u)

\* unit::simplify: crtp::simplify, dynamic_exp::simplify and
\* dynamic_product::simplify, each returning a pointer to a new object
RECURSIVE HeapSimplify(_, _)
RECURSIVE HeapSimplifyTerms(_, _, _, _)
HeapSimplifyTerms(M, result, ts, i) ==
  IF i > Len(ts) THEN M
  ELSE LET s == HeapSimplify(M, ts[i])
       IN  HeapSimplifyTerms(
             IF IsUnitless(s.m.cells[s.a]) THEN s.m
             ELSE HeapPushBack(s.m, result, s.a),
             result, ts, i + 1)

HeapSimplify(M, a) ==
  LET c == M.cells[a]
  IN  IF c.kind = "exp"
        THEN IF c.exponent = 0 THEN Allocate(M, unitless)
             ELSE IF c.exponent = 1 THEN HeapCopy(M, c.base)
             ELSE HeapCopy(M, a)
      ELSE IF c.kind = "product"
        THEN LET result == Allocate(M, ProductCell(<<>>))
                 R == HeapSimplifyTerms(result.m, result.a, c.terms, 1)
                 left == R.cells[result.a].terms
             IN  IF left = <<>> THEN Allocate(R, unitless)
                 ELSE IF Len(left) = 1 THEN HeapCopy(R, left[1])
                 ELSE HeapCopy(R, result.a)
      ELSE HeapCopy(M, a)

\* operator*(dynamic_unit const&, dynamic_unit const&) and operator/
HeapMul(M, a, b) ==
  LET p == Allocate(M, ProductCell(<<>>))
  IN  HeapSimplify(HeapApply(HeapApply(p.m, p.a, a, 1), p.a, b, 1), p.a)

HeapDiv(M, a, b) ==
  LET p == Allocate(M, ProductCell(<<>>))
  IN  HeapSimplify(HeapApply(HeapApply(p.m, p.a, a, 1), p.a, b, -1), p.a)

\* root(dynamic_unit const&, int) where it does not throw
RECURSIVE HeapRoot(_, _, _)
RECURSIVE HeapRootTerms(_, _, _, _, _)
HeapRootTerms(M, result, ts, exponent, i) ==
  IF i > Len(ts) THEN M
  ELSE LET r == HeapRoot(M, ts[i], exponent)
       IN  HeapRootTerms(HeapApply(r.m, result, r.a, 1), result, ts,
                         exponent, i + 1)

HeapRoot(M, base, exponent) ==
  LET c == M.cells[base]
  IN  IF c.kind = "exp"
        THEN LET b == HeapCopy(M, c.base)
                 e == Allocate(b.m, ExpCell(b.a, CDiv(c.exponent, exponent)))
             IN  HeapSimplify(e.m, e.a)
      ELSE LET result == Allocate(M, ProductCell(<<>>))
           IN  HeapSimplify(HeapRootTerms(result.m, result.a, c.terms,
                                          exponent, 1),
                            result.a)

\* a description constructed in the free store
RECURSIVE HeapBuild(_, _)
RECURSIVE HeapBuildTerms(_, _, _, _)
HeapBuildTerms(M, ts, i, built) ==
  IF i > Len(ts) THEN [m |-> M, as |-> built]
  ELSE LET r == HeapBuild(M, ts[i])
       IN  HeapBuildTerms(r.m, ts, i + 1, Append(built, r.a))

HeapBuild(M, U) ==
  IF IsExp(U)
    THEN LET b == HeapBuild(M, U.base)
         IN  Allocate(b.m, ExpCell(b.a, U.exponent))
  ELSE IF IsProduct(U)
    THEN LET ts == HeapBuildTerms(M, U.terms, 1, <<>>)
         IN  Allocate(ts.m, ProductCell(ts.as))
  ELSE Allocate(M, U)

-----------------------------------------------------------------------------
(* The ownership state machine: the program holds dynamic units, applies    *)
(* copy, operator*, operator/, root and simplify to them and keeps the      *)
(* results, and changes a product it holds in place with multiply_with and  *)
(* divide_by.                                                               *)

\* the units the program starts with
OwnOperands ==
  {meter, Exp(meter, 2),
   Product(<<Exp(meter, 1), Exp(second, -2)>>),
   Product(<<Exp(meter, 2)>>)}

OwnInit ==
  /\ \E A \in OwnOperands, B \in OwnOperands :
       LET a == HeapBuild([cells |-> <<>>, thrown |-> FALSE], A)
           b == HeapBuild(a.m, B)
       IN  /\ heap = b.m
           /\ held = <<a.a, b.a>>
           /\ heldPrev = <<A, B>>
  /\ ownOp = "none"
  /\ ownTarget = 0
  /\ ownSteps = 0

OwnReady == ownSteps < MaxOwnSteps /\ ~heap.thrown

Held == 1 .. Len(held)

Views == [i \in Held |-> View(heap.cells, held[i])]

\* the program keeps the unit an operation returned
OwnReturn(r, op) ==
  /\ heap' = r.m
  /\ held' = Append(held, r.a)
  /\ heldPrev' = Views
  /\ ownOp' = op
  /\ ownTarget' = 0
  /\ ownSteps' = ownSteps + 1
  /\ UNCHANGED ratVars
  /\ UNCHANGED unitVars
  /\ UNCHANGED qtyVars
  /\ UNCHANGED dimVars
  /\ UNCHANGED prodVars
  /\ UNCHANGED lawVars
  /\ UNCHANGED feVars
  /\ UNCHANGED fpVars

\* dynamic_unit c(held[i])
OwnCopy ==
  /\ OwnReady
  /\ \E i \in Held : OwnReturn(HeapCopy(heap, held[i]), "copy")

\* held[i] * held[j]
OwnMultiply ==
  /\ OwnReady
  /\ \E i \in Held, j \in Held :
       OwnReturn(HeapMul(heap, held[i], held[j]), "multiply")

\* held[i] / held[j]
OwnDivide ==
  /\ OwnReady
  /\ \E i \in Held, j \in Held :
       OwnReturn(HeapDiv(heap, held[i], held[j]), "divide")

\* root(held[i], k) where it returns
OwnRoot ==
  /\ OwnReady
  /\ \E i \in Held, k \in RootExponents :
       /\ ~IsError(root(Views[i], k))
       /\ OwnReturn(HeapRoot(heap, held[i], k), "root")

\* held[i].simplify()
OwnSimplify ==
  /\ OwnReady
  /\ \E i \in Held : OwnReturn(HeapSimplify(heap, held[i]), "simplify")

\* the product held[i] changed in place by multiply_with(held[j]) or
\* divide_by(held[j])
OwnChange(sign, op) ==
  /\ OwnReady
  /\ \E i \in Held, j \in Held :
       /\ i # j
       /\ heap.cells[held[i]].kind = "product"
       /\ heap' = HeapApply(heap, held[i], held[j], sign)
       /\ ownTarget' = i
  /\ heldPrev' = Views
  /\ ownOp' = op
  /\ ownSteps' = ownSteps + 1
  /\ UNCHANGED held
  /\ UNCHANGED ratVars
  /\ UNCHANGED unitVars
  /\ UNCHANGED qtyVars
  /\ UNCHANGED dimVars
  /\ UNCHANGED prodVars
  /\ UNCHANGED lawVars
  /\ UNCHANGED feVars
  /\ UNCHANGED fpVars

OwnMultiplyWith == OwnChange(1, "multiply_with")

OwnDivideBy == OwnChange(-1, "divide_by")

OwnNext ==
  \/ OwnCopy
  \/ OwnMultiply
  \/ OwnDivide
  \/ OwnRoot
  \/ OwnSimplify
  \/ OwnMultiplyWith
  \/ OwnDivideBy

InitOwnership ==
  OwnInit /\ RatIdle /\ UnitIdle /\ QuantityIdle /\ DimIdle /\ ProductIdle
    /\ LawIdle /\ ForEachIdle /\ FixedPointIdle

SpecOwnership == InitOwnership /\ [][OwnNext]_vars

-----------------------------------------------------------------------------
(* The laws of the rational arithmetic: two non-zero rationals a and b and  *)
(* two exponents e and f are chosen, and one expression over them is        *)
(* evaluated by the program, together with the expression it is compared    *)
(* with where that one is evaluated by the program too.                     *)

\* 2 ^ (IntBits / 3 + 1): its square fits the register, its cube does not
CubeRoot == 2 ^ (IntBits \div 3 + 1)

SquareRoot == 2 ^ (IntBits \div 2)

\* non-zero rationals in lowest terms with a positive denominator
LawRationals ==
  {rational(-5, 7), rational(6, 1), rational(2, 3),
   rational(CubeRoot + 1, CubeRoot), rational(-CubeRoot, 3),
   rational(3 * CubeRoot + 3, CubeRoot * CubeRoot),
   rational(SquareRoot, SquareRoot - 1), rational(MaxInt, 2)}

LawExponents == (-MaxLawPow) .. MaxLawPow

LawInit ==
  /\ lawA \in LawRationals
  /\ lawB \in LawRationals
  /\ lawE \in LawExponents
  /\ lawF \in LawExponents
  /\ lawOp = "none"
  /\ lawLhs = rational1(1)
  /\ lawRhs = rational1(1)
  /\ lawUB = FALSE
  /\ lawPc = "value"

LawReturn(op, lhs, rhs, ub) ==
  /\ lawOp = "none"
  /\ lawOp' = op
  /\ lawLhs' = lhs
  /\ lawRhs' = rhs
  /\ lawUB' = ub
  /\ \E outcome \in UBOutcomes(ub) : lawPc' = outcome
  /\ UNCHANGED <<lawA, lawB, lawE, lawF>>
  /\ UNCHANGED ratVars
  /\ UNCHANGED unitVars
  /\ UNCHANGED qtyVars
  /\ UNCHANGED dimVars
  /\ UNCHANGED prodVars
  /\ UNCHANGED ownVars
  /\ UNCHANGED feVars
  /\ UNCHANGED fpVars

\* pow(a, 0) and rational(1)
LawPowZero ==
  LawReturn("pow_zero", RatPow(lawA, 0), rational1(1), RatPowUB(lawA, 0))

\* pow(a, e)
LawPower ==
  LawReturn("pow", RatPow(lawA, lawE), RatPow(lawA, lawE),
            RatPowUB(lawA, lawE))

\* pow(a, e) * pow(a, -e) and rational(1)
LawPowInverse ==
  LawReturn("pow_inverse",
            RatMul(RatPow(lawA, lawE), RatPow(lawA, -lawE)), rational1(1),
            \/ RatPowUB(lawA, lawE)
            \/ RatPowUB(lawA, -lawE)
            \/ RatMulUB(RatPow(lawA, lawE), RatPow(lawA, -lawE)))

\* pow(a, e + f) and pow(a, e) * pow(a, f)
LawPowOfSum ==
  LawReturn("pow_of_sum", RatPow(lawA, lawE + lawF),
            RatMul(RatPow(lawA, lawE), RatPow(lawA, lawF)),
            \/ RatPowUB(lawA, lawE + lawF)
            \/ RatPowUB(lawA, lawE)
            \/ RatPowUB(lawA, lawF)
            \/ RatMulUB(RatPow(lawA, lawE), RatPow(lawA, lawF)))

\* inverse(inverse(a)) and a
LawInverseTwice ==
  LawReturn("inverse_twice", inverse(inverse(lawA)), lawA,
            inverseUB(lawA) \/ inverseUB(inverse(lawA)))

\* a * b
LawTimes ==
  LawReturn("times", RatMul(lawA, lawB), RatMul(lawA, lawB),
            RatMulUB(lawA, lawB))

\* a / b
LawOver ==
  LawReturn("over", RatDiv(lawA, lawB), RatDiv(lawA, lawB),
            RatDivUB(lawA, lawB))

LawNext ==
  \/ LawPowZero
  \/ LawPower
  \/ LawPowInverse
  \/ LawPowOfSum
  \/ LawInverseTwice
  \/ LawTimes
  \/ LawOver

InitLaw ==
  LawInit /\ RatIdle /\ UnitIdle /\ QuantityIdle /\ DimIdle /\ ProductIdle
    /\ OwnIdle /\ ForEachIdle /\ FixedPointIdle

SpecLaw == InitLaw /\ [][LawNext]_vars

-----------------------------------------------------------------------------
(* for_each over an iterator range.  The range has feN = last - first       *)
(* elements, element i being *(first + i); feApplied counts the calls of f  *)
(* on each element and on the positions behind the range a thread of the    *)
(* last block stands for.                                                   *)

\* unsigned(n)
ToUnsigned(n) == n % (2 ^ UnsignedBits)

\* ceildiv(a, b)
ceildiv(a, b) == (a \div b) + (IF a % b # 0 THEN 1 ELSE 0)

\* the positions a call of f can be counted at
Positions == 0 .. (MaxElements + BlockSize)

ForEachInit ==
  /\ feN \in 0 .. MaxElements
  /\ fePolicy \in {"local", "serial", "cuda"}
  /\ fePc = "called"
  /\ feFirst = 0
  /\ feApplied = [i \in Positions |-> 0]
  /\ feOrdered = TRUE
  /\ feBlocks = 0
  /\ feRan = {}

ForEachFrame ==
  /\ UNCHANGED <<feN, fePolicy>>
  /\ UNCHANGED ratVars
  /\ UNCHANGED unitVars
  /\ UNCHANGED qtyVars
  /\ UNCHANGED dimVars
  /\ UNCHANGED prodVars
  /\ UNCHANGED ownVars
  /\ UNCHANGED lawVars
  /\ UNCHANGED fpVars

\* f(*it), it = first + i
Apply(i) ==
  /\ feApplied' = [feApplied EXCEPT ![i] = @ + 1]
  /\ feOrdered' = (feOrdered /\ \A j \in Positions :
                                  feApplied[j] > 0 => j < i)

\* for_each(local_execution, ...) and for_each(serial_execution, ...): one
\* turn of the loop
SerialApply ==
  /\ fePc = "called"
  /\ fePolicy \in {"local", "serial"}
  /\ feFirst # feN
  /\ Apply(feFirst)
  /\ feFirst' = feFirst + 1
  /\ UNCHANGED <<fePc, feBlocks, feRan>>
  /\ ForEachFrame

\* first == last: the loop ends
SerialReturn ==
  /\ fePc = "called"
  /\ fePolicy \in {"local", "serial"}
  /\ feFirst = feN
  /\ fePc' = "done"
  /\ UNCHANGED <<feFirst, feApplied, feOrdered, feBlocks, feRan>>
  /\ ForEachFrame

\* for_each(cuda_execution, ...) with n == 0: no kernel is launched
CudaReturnEmpty ==
  /\ fePc = "called"
  /\ fePolicy = "cuda"
  /\ feN = 0
  /\ fePc' = "done"
  /\ UNCHANGED <<feFirst, feApplied, feOrdered, feBlocks, feRan>>
  /\ ForEachFrame

\* for_each(cuda_execution, ...) with n != 0: the kernel is launched on
\* ceildiv(unsigned(n), cuda_block.x) blocks
CudaLaunch ==
  /\ fePc = "called"
  /\ fePolicy = "cuda"
  /\ feN # 0
  /\ feBlocks' = ceildiv(ToUnsigned(feN), BlockSize)
  /\ fePc' = "launched"
  /\ UNCHANGED <<feFirst, feApplied, feOrdered, feRan>>
  /\ ForEachFrame

\* details::cuda_for_each in the thread threadIdx of the block blockIdx; the
\* threads run in any order
CudaThread ==
  /\ fePc = "launched"
  /\ \E blockIdx \in 0 .. (feBlocks - 1), threadIdx \in 0 .. (BlockSize - 1) :
       LET i == ToUnsigned(threadIdx + blockIdx * BlockSize)
       IN  /\ <<blockIdx, threadIdx>> \notin feRan
           /\ feRan' = feRan \cup {<<blockIdx, threadIdx>>}
           /\ IF i < feN THEN Apply(i)
              ELSE UNCHANGED <<feApplied, feOrdered>>
  /\ UNCHANGED <<fePc, feFirst, feBlocks>>
  /\ ForEachFrame

\* every thread of the grid has run
CudaComplete ==
  /\ fePc = "launched"
  /\ Cardinality(feRan) = feBlocks * BlockSize
  /\ fePc' = "done"
  /\ UNCHANGED <<feFirst, feApplied, feOrdered, feBlocks, feRan>>
  /\ ForEachFrame

ForEachNext ==
  \/ SerialApply
  \/ SerialReturn
  \/ CudaReturnEmpty
  \/ CudaLaunch
  \/ CudaThread
  \/ CudaComplete

InitForEach ==
  ForEachInit /\ RatIdle /\ UnitIdle /\ QuantityIdle /\ DimIdle /\ ProductIdle
    /\ OwnIdle /\ LawIdle /\ FixedPointIdle

SpecForEach == InitForEach /\ [][ForEachNext]_vars

-----------------------------------------------------------------------------
(* The fixed-point sum of doubles over the ranks of a communicator *)

\* the ranks of m_comm
Ranks == 1 .. NumRanks

\* the smallest exponent the reduction of the exponents starts from
minimum_exponent == -1023

\* the double significand * 2 ^ exponent, as decompose_double(value,
\* significand, exponent) takes it apart
Double(significand, exponent) ==
  [significand |-> significand, exponent |-> exponent]

\* the largest significand of a double
MaxSignificand == 2 ^ SignificandBits - 1

\* the double 0.0, whose exponent is that of the subnormal doubles
Zero == Double(0, -1074)

\* the doubles the ranks hold: two doubles of different exponents and signs,
\* and the smallest subnormal double
Doubles == { Double(5, 0), Double(-3, 1), Double(1, -1074) }

\* int128: an integer of Int128Bits bits in two's complement
Int128Modulus == 2 ^ Int128Bits

int128(x) ==
  ((x + Int128Modulus \div 2) % Int128Modulus) - Int128Modulus \div 2

\* exponent(value)
exponent(value) == value.exponent

\* maximizes<int>
maximizes(a, b) == IF a > b THEN a ELSE b

\* adds<int128>
adds(a, b) == int128(a + b)

\* decompose_double(value, maximum_exponent): the significand of the value
\* in fixed point at maximum_exponent, shifted to the right towards zero
decompose_double(value, maximum_exponent) ==
  LET shift == maximum_exponent - value.exponent
      significand == value.significand
      sign == IF significand < 0 THEN -1 ELSE 1
  IN  IF shift >= SignificandBits
        THEN 0
        ELSE sign * ((sign * significand) \div (2 ^ shift))

RECURSIVE ShiftIntoDouble(_, _)
\* the loop of compose_double that shifts a significand to the right until a
\* double holds it
ShiftIntoDouble(significand, exp) ==
  IF significand > MaxSignificand
    THEN ShiftIntoDouble(significand \div 2, exp + 1)
    ELSE Double(significand, exp)

\* compose_double(significand_128, exponent)
compose_double(significand_128, exp) ==
  LET sign == IF significand_128 < 0 THEN -1 ELSE 1
      shifted == ShiftIntoDouble(sign * significand_128, exp)
  IN  IF significand_128 = 0
        THEN Zero
        ELSE Double(sign * shifted.significand, shifted.exponent)

\* an operation of the all-reduce that leaves *b as it is
KeepOwnSum(a, b) == b

\* p3a_mpi_int128_sum(a, b, ...): the value it leaves in *b
p3a_mpi_int128_sum(a, b) == adds(b, a)

RECURSIVE ValuesOf(_, _, _)
\* the values of vs that owner gives to rank r, in their order
ValuesOf(vs, owner, r) ==
  IF vs = <<>>
    THEN <<>>
    ELSE LET rest == ValuesOf(Tail(vs), Tail(owner), r)
         IN  IF Head(owner) = r THEN <<Head(vs)>> \o rest ELSE rest

\* the sequences of at most n elements of S
SeqUpTo(S, n) == UNION { [1 .. k -> S] : k \in 0 .. n }

RECURSIVE ReduceExponents(_, _)
\* m_exponent_reducer.transform_reduce(cbegin, cend, init, maximizes<int>,
\* exponent)
ReduceExponents(values, init) ==
  IF values = <<>>
    THEN init
    ELSE ReduceExponents(Tail(values), maximizes(init, exponent(Head(values))))

RECURSIVE AllReduceMax(_, _)
\* the maximum an all-reduce with mpi::op::max() leaves in the buffer of
\* every rank: the maximum of the contributions of the ranks 1 .. n
AllReduceMax(contributions, n) ==
  IF n = 1
    THEN contributions[1]
    ELSE maximizes(AllReduceMax(contributions, n - 1), contributions[n])

\* the exponent the conversion of compute() captures
CapturedLocalExponent(r) == local_max_exponent[r]

CapturedExponent(r) == global_max_exponent[r]

\* every partitioning of at most MaxValues doubles among the ranks, before
\* any rank has called compute()
FixedPointInit ==
  /\ \E vs \in SeqUpTo(Doubles, MaxValues) :
       \E owner \in [1 .. Len(vs) -> Ranks] :
         m_values = [r \in Ranks |-> ValuesOf(vs, owner, r)]
  /\ local_max_exponent = [r \in Ranks |-> minimum_exponent]
  /\ global_max_exponent = [r \in Ranks |-> minimum_exponent]
  /\ local_sum = [r \in Ranks |-> 0]
  /\ global_sum = [r \in Ranks |-> 0]
  /\ fpPc = [r \in Ranks |-> "called"]
  /\ fpSeen = [r \in Ranks |-> {}]
  /\ fpFolded = [r \in Ranks |-> {}]
  /\ fpConvertedAt = [r \in Ranks |-> {}]
  /\ fpResult = [r \in Ranks |-> Zero]

FixedPointFrame ==
  /\ UNCHANGED m_values
  /\ UNCHANGED ratVars
  /\ UNCHANGED unitVars
  /\ UNCHANGED qtyVars
  /\ UNCHANGED dimVars
  /\ UNCHANGED prodVars
  /\ UNCHANGED ownVars
  /\ UNCHANGED lawVars
  /\ UNCHANGED feVars

\* rank r reduces the exponents of its values, copies the maximum to the
\* buffer and enters the all-reduce of the maximum
ReduceLocalExponent(r) ==
  /\ fpPc[r] = "called"
  /\ local_max_exponent' =
       [local_max_exponent EXCEPT
          ![r] = ReduceExponents(m_values[r], minimum_exponent)]
  /\ global_max_exponent' =
       [global_max_exponent EXCEPT ![r] = local_max_exponent'[r]]
  /\ fpPc' = [fpPc EXCEPT ![r] = "max_entered"]
  /\ UNCHANGED <<local_sum, global_sum, fpSeen, fpFolded, fpConvertedAt,
                 fpResult>>
  /\ FixedPointFrame

\* the all-reduce of the maximum returns on rank r: every rank has entered
\* it, and the buffer of rank r holds the maximum of all ranks
AllReduceMaxReturns(r) ==
  /\ fpPc[r] = "max_entered"
  /\ \A s \in Ranks : fpPc[s] # "called"
  /\ global_max_exponent' =
       [global_max_exponent EXCEPT
          ![r] = AllReduceMax(local_max_exponent, NumRanks)]
  /\ fpPc' = [fpPc EXCEPT ![r] = "converting"]
  /\ UNCHANGED <<local_max_exponent, local_sum, global_sum, fpSeen, fpFolded,
                 fpConvertedAt, fpResult>>
  /\ FixedPointFrame

\* m_int128_reducer.transform_reduce on rank r converts one more of its
\* values, whichever, and adds it to the sum
ConvertAndAdd(r) ==
  /\ fpPc[r] = "converting"
  /\ \E i \in (1 .. Len(m_values[r])) \ fpSeen[r] :
       /\ local_sum' =
            [local_sum EXCEPT
               ![r] = adds(@, int128(decompose_double(m_values[r][i],
                                                      CapturedExponent(r))))]
       /\ fpSeen' = [fpSeen EXCEPT ![r] = @ \cup {i}]
  /\ fpConvertedAt' = [fpConvertedAt EXCEPT ![r] = @ \cup {CapturedExponent(r)}]
  /\ UNCHANGED <<local_max_exponent, global_max_exponent, global_sum, fpPc,
                 fpFolded, fpResult>>
  /\ FixedPointFrame

\* rank r has added all its values, copies the sum to the buffer and enters
\* the all-reduce of the sums
EnterAllReduceSum(r) ==
  /\ fpPc[r] = "converting"
  /\ fpSeen[r] = 1 .. Len(m_values[r])
  /\ global_sum' = [global_sum EXCEPT ![r] = local_sum[r]]
  /\ fpFolded' = [fpFolded EXCEPT ![r] = {r}]
  /\ fpPc' = [fpPc EXCEPT ![r] = "sum_entered"]
  /\ UNCHANGED <<local_max_exponent, global_max_exponent, local_sum, fpSeen,
                 fpConvertedAt, fpResult>>
  /\ FixedPointFrame

\* the all-reduce of the sums folds the sum of one more rank, whichever has
\* entered, into the buffer of rank r with p3a_mpi_int128_sum
FoldSum(r) ==
  /\ fpPc[r] = "sum_entered"
  /\ \E s \in Ranks \ fpFolded[r] :
       /\ fpPc[s] \in {"sum_entered", "done"}
       /\ global_sum' =
            [global_sum EXCEPT ![r] = p3a_mpi_int128_sum(local_sum[s], @)]
       /\ fpFolded' = [fpFolded EXCEPT ![r] = @ \cup {s}]
  /\ UNCHANGED <<local_max_exponent, global_max_exponent, local_sum, fpPc,
                 fpSeen, fpConvertedAt, fpResult>>
  /\ FixedPointFrame

\* the all-reduce of the sums returns on rank r and compute() returns the
\* double composed of the sum and the exponent
ComposeResult(r) ==
  /\ fpPc[r] = "sum_entered"
  /\ fpFolded[r] = Ranks
  /\ fpResult' =
       [fpResult EXCEPT
          ![r] = compose_double(global_sum[r], global_max_exponent[r])]
  /\ fpPc' = [fpPc EXCEPT ![r] = "done"]
  /\ UNCHANGED <<local_max_exponent, global_max_exponent, local_sum,
                 global_sum, fpSeen, fpFolded, fpConvertedAt>>
  /\ FixedPointFrame

FixedPointNext ==
  \E r \in Ranks :
    \/ ReduceLocalExponent(r)
    \/ AllReduceMaxReturns(r)
    \/ ConvertAndAdd(r)
    \/ EnterAllReduceSum(r)
    \/ FoldSum(r)
    \/ ComposeResult(r)

InitFixedPoint ==
  FixedPointInit /\ RatIdle /\ UnitIdle /\ QuantityIdle /\ DimIdle
    /\ ProductIdle /\ OwnIdle /\ LawIdle /\ ForEachIdle

SpecFixedPoint == InitFixedPoint /\ [][FixedPointNext]_vars

-----------------------------------------------------------------------------
(* Claims about the rational type *)

RECURSIVE MathGcd(_, _)
MathGcd(a, b) == IF b = 0 THEN a ELSE MathGcd(b, a % b)

Canonical(r) == r.den > 0 /\ MathGcd(MathAbs(r.num), r.den) = 1

\* C1: every rational built by rational(n, d) with d # 0, and every value
\* returned by inverse (of a non-zero rational), operator*, operator/ (by a
\* non-zero rational) and pow, has denominator > 0 and
\* gcd(|numerator|, denominator) = 1.
C1_RationalCanonical ==
  (ratPc = "value" /\ ratOp # "none" /\ ratOp \notin ZeroOperations) =>
    Canonical(rat)

\* C17: rational(n, 0), inverse of a zero rational and division by a zero
\* rational fail at construction: none of them returns a rational, and so
\* none returns a rational whose denominator is 0
C17_ZeroDenominatorGuarded == ratOp \in ZeroOperations => ratPc # "value"

\* no rational with denominator 0 is returned by the operations on non-zero
\* denominators and non-zero rationals that stay in the int64 range
NoZeroDenominatorInRange ==
  (ratPc = "value" /\ ~ratUB /\ ratOp \notin ZeroOperations) => rat.den # 0

-----------------------------------------------------------------------------
(* Claims about the unit algebra *)

\* C2: for every sequence of multiply / divide / root steps applied to the
\* same units, the static and the dynamic algebra yield the same ordered list
\* of (base, exponent) terms, also when two distinct named units have the
\* same dimension, magnitude and origin.
C2_StaticDynamicAgree == dyn = stat

\* C3: (A * B) / B is the simplified form of A, in both algebras.
C3_Cancellation ==
  uOp = "cancel" =>
    /\ dyn = simplify(dynPrev)
    /\ stat = static_simplify(statPrev)

\* C4: the result of simplify is unchanged by simplify, in both algebras.
C4_SimplifyIdempotent ==
  uOp = "simplify" =>
    /\ simplify(dyn) = dyn
    /\ static_simplify(stat) = stat

\* C10: the e-th root of U raised to the power e is U simplified, in both
\* algebras.
C10_RootOfPow ==
  uOp = "root_of_pow" =>
    /\ dyn = simplify(dynPrev)
    /\ stat = static_simplify(statPrev)

-----------------------------------------------------------------------------
(* Claims about quantities and conversions *)

\* the kul rational m is the mathematical product of a and b
IsProductOf(m, a, b) == m.num * (a.den * b.den) = (a.num * b.num) * m.den

\* the kul rational m is the mathematical quotient of a by b
IsQuotientOf(m, a, b) == m.num * (a.den * b.num) = (a.num * b.den) * m.den

\* C5: a * b has the value x * y and a / b the value x / y; the unit of the
\* result has the dimension and the magnitude that are the product
\* (respectively the quotient) of those of the operands, for the unit type of
\* the quantity and for the dynamic_unit computed by the dynamic algebra;
\* watt(1) * second(2) has the value 2 and a unit equal to joule,
\* meter(1) / second(2) is meters-per-second(1/2).
C5_QuantityProduct ==
  /\ qOp = "multiply" =>
       /\ qty.value.n * (qtyPrev.value.d * qArg.value.d)
            = (qtyPrev.value.n * qArg.value.n) * qty.value.d
       /\ DimEq(static_dimension(qty.unit),
                DimMul(static_dimension(qtyPrev.unit),
                       static_dimension(qArg.unit)))
       /\ IsProductOf(static_magnitude(qty.unit),
                      static_magnitude(qtyPrev.unit),
                      static_magnitude(qArg.unit))
       /\ DimEq(dimension(qDyn),
                DimMul(dimension(qDynPrev), dimension(qArg.unit)))
       /\ IsProductOf(magnitude(qDyn), magnitude(qDynPrev),
                      magnitude(qArg.unit))
       /\ (qtyPrev = quantity(Val(1, 1), watt)
             /\ qArg = quantity(Val(2, 1), second))
            => (qty.value = Val(2, 1) /\ are_equal(qty.unit, joule))
  /\ qOp = "divide" =>
       /\ qty.value.n * (qtyPrev.value.d * qArg.value.n)
            = (qtyPrev.value.n * qArg.value.d) * qty.value.d
       /\ DimEq(static_dimension(qty.unit),
                DimDiv(static_dimension(qtyPrev.unit),
                       static_dimension(qArg.unit)))
       /\ IsQuotientOf(static_magnitude(qty.unit),
                       static_magnitude(qtyPrev.unit),
                       static_magnitude(qArg.unit))
       /\ DimEq(dimension(qDyn),
                DimDiv(dimension(qDynPrev), dimension(qArg.unit)))
       /\ IsQuotientOf(magnitude(qDyn), magnitude(qDynPrev),
                       magnitude(qArg.unit))
       /\ (qtyPrev = quantity(Val(1, 1), meter)
             /\ qArg = quantity(Val(2, 1), second))
            => qty = quantity(Val(1, 2), meters_per_second)

\* watt(1) was multiplied by second(2)
C5_Witness ==
  /\ qOp = "multiply"
  /\ qtyPrev = quantity(Val(1, 1), watt)
  /\ qArg = quantity(Val(2, 1), second)
  /\ qty.value = Val(2, 1)
  /\ are_equal(qty.unit, joule)

\* the value of a kul rational and of an optional origin as exact fractions
RatVal(r) == Val(r.num, r.den)
OriginVal(o) == IF o.has_value THEN RatVal(o.value) ELSE Val(0, 1)

\* v * (mag_A / mag_B) + (origin_A - origin_B) / mag_B
ConversionFormula(v, A, B) ==
  ValAdd(ValMul(v, ValDiv(RatVal(static_magnitude(A)),
                          RatVal(static_magnitude(B)))),
         ValDiv(ValSub(OriginVal(static_origin(A)),
                       OriginVal(static_origin(B))),
                RatVal(static_magnitude(B))))

ConvertedFrom(v, A, B) ==
  qtyPrev = quantity(v, A) /\ qty.unit = B

\* C6: a conversion from A to B (equal dimension, both absolute or both
\* relative) maps v to v * (mag_A / mag_B) + (origin_A - origin_B) / mag_B,
\* an absent origin counting as 0: kelvin 0 is celsius -273.15 and
\* fahrenheit -459.67, fahrenheit 100.4 is celsius 38, celsius 0 is
\* fahrenheit 32, milli-inch 1 is micrometer 25.4, percent 80 is unitless 0.8.
C6_ConversionFormula ==
  qOp = "convert" =>
    /\ qty.value = ConversionFormula(qtyPrev.value, qtyPrev.unit, qty.unit)
    /\ ConvertedFrom(Val(0, 1), kelvin, celsius)
         => qty.value = Val(-27315, 100)
    /\ ConvertedFrom(Val(0, 1), kelvin, fahrenheit)
         => qty.value = Val(-45967, 100)
    /\ ConvertedFrom(Val(502, 5), fahrenheit, celsius)
         => qty.value = Val(38, 1)
    /\ ConvertedFrom(Val(0, 1), celsius, fahrenheit)
         => qty.value = Val(32, 1)
    /\ ConvertedFrom(Val(1, 1), thou, micrometer)
         => qty.value = Val(254, 10)
    /\ ConvertedFrom(Val(80, 1), percent, unitless)
         => qty.value = Val(8, 10)

\* fahrenheit 100.4 was converted to celsius 38
C6_Witness ==
  /\ qOp = "convert"
  /\ ConvertedFrom(Val(502, 5), fahrenheit, celsius)
  /\ qty.value = Val(38, 1)

\* C7: converting v from A to B and the result back from B to A gives v, for
\* units of equal dimension that are both absolute or both relative.
C7_ConversionRoundTrip ==
  qOp = "round_trip" => qty = qtyPrev

\* fahrenheit 100.4 went to celsius and came back
C7_Witness ==
  /\ qOp = "round_trip"
  /\ qArg = celsius
  /\ qtyPrev = quantity(Val(502, 5), fahrenheit)
  /\ qty = qtyPrev

\* C8: conversion(from, to) built from two run-time units of different
\* dimension, or of which exactly one has an origin, signals an error and
\* yields no multiplier and offset.
C8_DynamicConversionChecked ==
  (qOp = "dynamic_conversion" /\ ~DynamicPrecondition(qDynPrev, qArg))
    => IsError(qty)

\* C9: the converting constructor copies the value when the units are equal;
\* when they are not it passes the value through the conversion if the
\* dimensions are equal and both units are absolute or both relative, and
\* the build is rejected in every other case.
C9_ConvertingConstructor ==
  qOp = "construct" =>
    IF are_equal(qArg, qtyPrev.unit)
      THEN qty = quantity(qtyPrev.value, qArg)
    ELSE IF StaticPrecondition(qtyPrev.unit, qArg)
      THEN qty = quantity(conversion_call(
                            crtp_conversion(qtyPrev.unit, qArg),
                            qtyPrev.value), qArg)
    ELSE IsError(qty)

-----------------------------------------------------------------------------
(* Claims about the dynamic root *)

\* k divides e: e is a whole multiple of k
Divides(k, e) == \E q \in (-MathAbs(e)) .. MathAbs(e) : q * k = e

\* the q with q * k = e
Quotient(e, k) == CHOOSE q \in (-MathAbs(e)) .. MathAbs(e) : q * k = e

\* the root as the claim words it: an error on a named unit; on a power an
\* error unless k divides the exponent, else the simplified power of the
\* quotient; on a product an error if the root of a term is one, else the
\* simplified product of the roots
RECURSIVE StatedRoot(_, _)
RECURSIVE StatedRootTerms(_, _, _, _)
StatedRootTerms(result, ts, k, i) ==
  IF i > Len(ts) THEN result
  ELSE StatedRootTerms(multiply_with(result, StatedRoot(ts[i], k)),
                       ts, k, i + 1)

StatedRoot(u, k) ==
  IF IsNamed(u) THEN Error("runtime_error")
  ELSE IF IsExp(u)
    THEN IF Divides(k, u.exponent)
           THEN simplify(Exp(u.base, Quotient(u.exponent, k)))
         ELSE Error("runtime_error")
  ELSE IF \E i \in 1 .. Len(u.terms) : IsError(StatedRoot(u.terms[i], k))
    THEN Error("runtime_error")
  ELSE simplify(StatedRootTerms(Product(<<>>), u.terms, k, 1))

\* C11: root(base, k) is an error on a named unit for every k; on a power it
\* is an error when k does not divide the exponent and otherwise the
\* simplified power with the exponent divided by k; on a product it is the
\* simplified product of the roots of the terms, and an error as soon as the
\* root of one term is; an error leaves no partial result.
C11_DynamicRoot ==
  uOp = "root" => dyn = StatedRoot(dynPrev, uArg.exponent)

\* the same statement holds for every non-zero k
DynamicRootNonZero ==
  (uOp = "root" /\ uArg.exponent # 0) =>
    dyn = StatedRoot(dynPrev, uArg.exponent)

-----------------------------------------------------------------------------
(* Claims about the addition and subtraction of quantities *)

\* the fraction s is the sum x + y
IsSumOf(s, x, y) == s.n * (x.d * y.d) = (x.n * y.d + y.n * x.d) * s.d

\* the fraction s is the difference x - y
IsDifferenceOf(s, x, y) == s.n * (x.d * y.d) = (x.n * y.d - y.n * x.d) * s.d

SameRelativeUnit(a, b) == a.unit = b.unit /\ ~static_origin(a.unit).has_value

\* C12: a + b is defined only when a and b carry the same relative unit; the
\* sum then has the value x + y and that unit, and the difference of two such
\* quantities carries that unit too; there is no sum of quantities of an
\* absolute unit and none of quantities of different units.
C12_AdditionRelativeOnly ==
  /\ qOp = "add" =>
       IF SameRelativeUnit(qtyPrev, qArg)
         THEN /\ ~IsError(qty)
              /\ qty.unit = qtyPrev.unit
              /\ IsSumOf(qty.value, qtyPrev.value, qArg.value)
       ELSE IsError(qty)
  /\ (qOp = "subtract" /\ SameRelativeUnit(qtyPrev, qArg)) =>
       /\ ~IsError(qty)
       /\ qty.unit = qtyPrev.unit
       /\ IsDifferenceOf(qty.value, qtyPrev.value, qArg.value)

\* meters-per-second were added to meters-per-second
C12_Witness ==
  /\ qOp = "add"
  /\ qtyPrev.unit = meters_per_second
  /\ qArg.unit = meters_per_second
  /\ qty = quantity(Val(1, 1), meters_per_second)

\* C13: the difference of two quantities of the same absolute unit U has the
\* value x - y and the relative counterpart of U as its unit: the dimension
\* and magnitude of U and no origin; the relative counterpart of the
\* relative counterpart is equal to the relative counterpart.
C13_AbsoluteDifference ==
  (qOp = "subtract" /\ qArg.unit = qtyPrev.unit
     /\ static_origin(qtyPrev.unit).has_value) =>
    /\ ~IsError(qty)
    /\ IsDifferenceOf(qty.value, qtyPrev.value, qArg.value)
    /\ DimEq(static_dimension(qty.unit), static_dimension(qtyPrev.unit))
    /\ RatEq(static_magnitude(qty.unit), static_magnitude(qtyPrev.unit))
    /\ ~static_origin(qty.unit).has_value
    /\ are_equal(make_relative(qty.unit), qty.unit)

\* ---------------------------------------------------------------------
\* Claims about the canonical form of the unit of a quantity
\* ---------------------------------------------------------------------

TermBase(t) == IF IsExp(t) THEN t.base ELSE t

\* a term of a simplified product: a bare base, or a power whose exponent is
\* neither 0 nor 1
SimplifiedTerm(t) ==
  /\ ~IsProduct(t)
  /\ IsExp(t) =>
       /\ t.exponent \notin {0, 1}
       /\ ~IsExp(t.base)
       /\ ~IsProduct(t.base)

\* the simplified canonical form, the bases compared by SameBase
SimplifiedCanonical(U, SameBase(_, _)) ==
  IF IsProduct(U)
    THEN /\ Len(U.terms) >= 2
         /\ \A i \in 1 .. Len(U.terms) : SimplifiedTerm(U.terms[i])
         /\ \A i, j \in 1 .. Len(U.terms) :
              i < j => ~SameBase(TermBase(U.terms[i]), TermBase(U.terms[j]))
  ELSE SimplifiedTerm(U)

SameType(A, B) == A = B

ProducedByArithmetic ==
  /\ qOp \in {"multiply", "divide", "sqrt", "cbrt", "add", "subtract"}
  /\ ~IsError(qty)

\* C14: the unit of every quantity produced by a multiplication, division,
\* square or cube root, addition or subtraction is in simplified canonical
\* form: a bare term or a product of at least two terms, no exponent 0, no
\* power with exponent 1, and no two terms with equal bases
C14_CanonicalUnit ==
  ProducedByArithmetic => SimplifiedCanonical(qty.unit, are_equal)

\* the same form with the bases compared as types, which is how the static
\* multiply_with and divide_by find the term to merge with
CanonicalUpToTypeIdentity ==
  ProducedByArithmetic => SimplifiedCanonical(qty.unit, SameType)

\* ---------------------------------------------------------------------
\* Claims about the mathematical functions of quantities
\* ---------------------------------------------------------------------

\* the units built from the dimensionless unit alone: the units of the
\* products, quotients and powers of dimensionless quantities
RECURSIVE OnlyUnitless(_)
OnlyUnitless(U) ==
  IF IsProduct(U)
    THEN \A i \in 1 .. Len(U.terms) : OnlyUnitless(U.terms[i])
  ELSE IF IsExp(U) THEN OnlyUnitless(U.base)
  ELSE U = unitless

\* every exponent of U is a multiple of k, a bare base counting as exponent 1
AllExponentsDivisible(U, k) ==
  LET terms == canonicalize(U).terms
  IN  \A i \in 1 .. Len(terms) : Divides(k, terms[i].exponent)

\* U with every exponent divided by k
DividedExponents(U, k) ==
  LET terms == canonicalize(U).terms
  IN  static_simplify(Product([i \in 1 .. Len(terms) |->
        Exp(terms[i].base, Quotient(terms[i].exponent, k))]))

Accepted(Unit) == ~IsError(qty) /\ qty.unit = Unit

\* C15: sqrt and cbrt are accepted exactly when every exponent of the unit is
\* divisible by 2, by 3, and return the unit with the exponents divided; the
\* trigonometric functions accept radians alone and return a dimensionless
\* quantity; the inverse functions and atan2 accept dimensionless quantities
\* alone and return radians; exp ... lgamma, pow and copysign accept
\* dimensionless quantities alone and return a dimensionless quantity; a
\* dimensionless quantity produced by arithmetic is accepted
C15_MathFunctions ==
  /\ qOp \in {"sqrt", "cbrt"} =>
       IF AllExponentsDivisible(qtyPrev.unit, qArg.exponent)
         THEN Accepted(DividedExponents(qtyPrev.unit, qArg.exponent))
       ELSE IsError(qty)
  /\ qOp \in UnaryTrigFunctions =>
       IF qtyPrev.unit = radian THEN Accepted(unitless) ELSE IsError(qty)
  /\ qOp \in UnaryInverseTrigFunctions =>
       IF OnlyUnitless(qtyPrev.unit) THEN Accepted(radian) ELSE IsError(qty)
  /\ qOp = "atan2" =>
       IF OnlyUnitless(qtyPrev.unit) /\ OnlyUnitless(qArg.unit)
         THEN Accepted(radian)
       ELSE IsError(qty)
  /\ qOp \in UnitlessUnaryFunctions =>
       IF OnlyUnitless(qtyPrev.unit) THEN Accepted(unitless) ELSE IsError(qty)
  /\ qOp \in UnitlessBinaryFunctions =>
       IF OnlyUnitless(qtyPrev.unit) /\ OnlyUnitless(qArg.unit)
         THEN Accepted(unitless)
       ELSE IsError(qty)

\* the functions of dimensionless quantities accept the unit type unitless
\* and no other
MathFunctionsOfUnitlessType ==
  /\ qOp \in UnaryInverseTrigFunctions =>
       IF qtyPrev.unit = unitless THEN Accepted(radian) ELSE IsError(qty)
  /\ qOp = "atan2" =>
       IF qtyPrev.unit = unitless /\ qArg.unit = unitless
         THEN Accepted(radian)
       ELSE IsError(qty)
  /\ qOp \in UnitlessUnaryFunctions =>
       IF qtyPrev.unit = unitless THEN Accepted(unitless) ELSE IsError(qty)
  /\ qOp \in UnitlessBinaryFunctions =>
       IF qtyPrev.unit = unitless /\ qArg.unit = unitless
         THEN Accepted(unitless)
       ELSE IsError(qty)

\* ---------------------------------------------------------------------
\* Claims about the dimensions
\* ---------------------------------------------------------------------

RECURSIVE SumOfExponents(_, _)
SumOfExponents(incoming, base) ==
  IF incoming = <<>> THEN 0
  ELSE (IF UnitEq(Head(incoming).base, base) THEN Head(incoming).exponent
        ELSE 0) + SumOfExponents(Tail(incoming), base)

\* C18: whatever multiply_with and divide_by were called with on a product
\* that was empty at first, no two terms of the product have bases that are
\* equal units, and the exponent of a term is the signed sum of the exponents
\* of all the terms applied whose base is equal to its base
C18_MergeByUnitEquality ==
  /\ \A i, j \in 1 .. Len(prod.terms) :
       i < j => ~UnitEq(prod.terms[i].base, prod.terms[j].base)
  /\ \A i \in 1 .. Len(prod.terms) :
       /\ IsExp(prod.terms[i])
       /\ prod.terms[i].exponent
            = SumOfExponents(prodIn, prod.terms[i].base)

\* a named unit, a power of a power and a product were applied, and the
\* three terms in meters merged into one term of exponent 1 - 2 + 1 = 0
C18_Witness ==
  /\ prodIn = <<[base |-> Prefixed("milli", Prefixed("kilo", meter)),
                 exponent |-> 1],
                [base |-> Exp(meter, 1), exponent |-> -2],
                [base |-> meter, exponent |-> 1],
                [base |-> second, exponent |-> -1]>>
  /\ prod = Product(<<Exp(meter, 0), Exp(second, -1)>>)

\* C19: a term equal to the dimensionless unit is dropped on append:
\* multiply_with and divide_by called with a unit equal to the dimensionless
\* unit leave the terms as they were, and the product under construction
\* holds no term equal to the dimensionless unit
C19_DimensionlessDropped ==
  /\ (prodOp \in {"multiply_with", "divide_by"} /\ UnitEq(prodArg, unitless))
       => prod = prodPrev
  /\ \A i \in 1 .. Len(prod.terms) : ~UnitEq(prod.terms[i], unitless)

\* simplify of a product as the claim words it: every term simplified, the
\* terms equal to the dimensionless unit discarded, then the dimensionless
\* unit, the single term or the product of the terms left
RECURSIVE StatedSimplifyTerms(_)
StatedSimplifyTerms(ts) ==
  IF ts = <<>> THEN <<>>
  ELSE LET t == simplify(Head(ts))
       IN  (IF UnitEq(t, unitless) THEN <<>> ELSE <<t>>)
             \o StatedSimplifyTerms(Tail(ts))

StatedSimplify(p) ==
  LET ts == StatedSimplifyTerms(p.terms)
  IN  IF ts = <<>> THEN unitless
      ELSE IF Len(ts) = 1 THEN ts[1]
      ELSE Product(ts)

\* C20: simplify of a product simplifies every term, discards the terms then
\* equal to the dimensionless unit, and returns the dimensionless unit, the
\* single term left or the product of the terms left; the result holds no
\* term equal, as a triple, to the dimensionless unit
C20_ProductSimplify ==
  prodOp = "simplify" =>
    /\ prodOut = StatedSimplify(prodPrev)
    /\ IsProduct(prodOut) =>
         \A i \in 1 .. Len(prodOut.terms) :
           ~UnitEq(prodOut.terms[i], unitless)

\* the same with the terms discarded that are the unit unitless itself, which
\* is the test push_back_unless_unitless makes
RECURSIVE SimplifyTermsByType(_)
SimplifyTermsByType(ts) ==
  IF ts = <<>> THEN <<>>
  ELSE LET t == simplify(Head(ts))
       IN  (IF t = unitless THEN <<>> ELSE <<t>>)
             \o SimplifyTermsByType(Tail(ts))

ProductSimplifyByType ==
  prodOp = "simplify" =>
    LET ts == SimplifyTermsByType(prodPrev.terms)
    IN  prodOut = IF ts = <<>> THEN unitless
                  ELSE IF Len(ts) = 1 THEN ts[1]
                  ELSE Product(ts)

\* operator== on the static triples of two unit types
StaticUnitEq(a, b) ==
  /\ DimEq(static_dimension(a), static_dimension(b))
  /\ RatEq(static_magnitude(a), static_magnitude(b))
  /\ OptEq(static_origin(a), static_origin(b))

\* C21: simplify returns a unit equal to the one it was applied to (same
\* dimension, same magnitude, same origin), in both algebras
C21_SimplifyPreservesUnit ==
  uOp = "simplify" =>
    /\ UnitEq(dyn, dynPrev)
    /\ StaticUnitEq(stat, statPrev)

\* simplify keeps the dimension and the magnitude; the origin is kept when the
\* unit simplified has none
SimplifyPreservesDimensionAndMagnitude ==
  uOp = "simplify" =>
    /\ DimEq(dimension(dyn), dimension(dynPrev))
    /\ RatEq(magnitude(dyn), magnitude(dynPrev))
    /\ DimEq(static_dimension(stat), static_dimension(statPrev))
    /\ RatEq(static_magnitude(stat), static_magnitude(statPrev))

TermBases(ts) == [i \in 1 .. Len(ts) |-> TermBase(ts[i])]

\* some term of the list has the base b, Same telling when two bases are one
Present(bases, b, Same(_, _)) == \E i \in 1 .. Len(bases) : Same(bases[i], b)

\* the position at which the base b is first seen in the list
FirstSeen(bases, b, Same(_, _)) ==
  CHOOSE k \in 1 .. Len(bases) :
    /\ Same(bases[k], b)
    /\ \A j \in 1 .. (k - 1) : ~Same(bases[j], b)

\* after is before with the terms applied: every term of before is where it
\* was, untouched unless its base was applied, and the bases not present
\* before follow at the end, each once, in the order they were first applied
InsertionOrder(before, after, applied, Same(_, _)) ==
  LET old == TermBases(before)
      new == TermBases(after)
  IN  /\ Len(after) >= Len(before)
      /\ \A i \in 1 .. Len(before) :
           /\ Same(new[i], old[i])
           /\ ~Present(applied, old[i], Same) => after[i] = before[i]
      /\ \A i \in (Len(before) + 1) .. Len(after) :
           /\ ~Present(old, new[i], Same)
           /\ Present(applied, new[i], Same)
           /\ \A j \in (Len(before) + 1) .. (i - 1) :
                /\ ~Same(new[j], new[i])
                /\ FirstSeen(applied, new[j], Same)
                     < FirstSeen(applied, new[i], Same)
      /\ \A k \in 1 .. Len(applied) : Present(new, applied[k], Same)

\* a can be had from b by removing elements
RECURSIVE IsSubsequence(_, _)
IsSubsequence(a, b) ==
  IF a = <<>> THEN TRUE
  ELSE IF b = <<>> THEN FALSE
  ELSE IF Head(a) = Head(b) /\ IsSubsequence(Tail(a), Tail(b)) THEN TRUE
  ELSE IsSubsequence(a, Tail(b))

\* the terms left by a simplification that returned U
TermsLeft(U) ==
  IF IsProduct(U) THEN U.terms ELSE IF U = unitless THEN <<>> ELSE <<U>>

\* the bases applied by the last call, in the order they were applied
AppliedBases ==
  LET applied == IncomingTerms(prodArg, 1)
  IN  [k \in 1 .. Len(applied) |-> applied[k].base]

-----------------------------------------------------------------------------
(* Claims about the ownership of dynamic descriptions *)

-----------------------------------------------------------------------------
(* Claims about the laws of the rational arithmetic *)

\* the mathematical product of two rationals in lowest terms, in lowest
\* terms, and whether its numerator and denominator fit the register
ExactTimes(a, b) ==
  LET g1 == MathGcd(MathAbs(a.num), b.den)
      g2 == MathGcd(MathAbs(b.num), a.den)
      n1 == Sign(a.num) * (MathAbs(a.num) \div g1)
      n2 == Sign(b.num) * (MathAbs(b.num) \div g2)
      d1 == a.den \div g2
      d2 == b.den \div g1
      fits == MulFits(n1, n2) /\ MulFits(d1, d2)
  IN  [fits |-> fits,
       value |-> IF fits THEN [num |-> n1 * n2, den |-> d1 * d2] ELSE a]

\* the mathematical inverse of a non-zero rational
ExactInverse(a) == [num |-> Sign(a.num) * a.den, den |-> MathAbs(a.num)]

ExactOver(a, b) == ExactTimes(a, ExactInverse(b))

\* the mathematical power b ^ e
RECURSIVE ExactPower(_, _)
ExactPower(b, e) ==
  IF e = 0 THEN [fits |-> TRUE, value |-> [num |-> 1, den |-> 1]]
  ELSE IF e < 0 THEN ExactPower(ExactInverse(b), -e)
  ELSE LET r == ExactPower(b, e - 1)
       IN  IF r.fits THEN ExactTimes(r.value, b) ELSE r

\* b ^ e can be held by a rational
Representable(b, e) == ExactPower(b, e).fits

\* the two sides are equal where the evaluation returned them
LawHolds == lawPc = "value" => RatEq(lawLhs, lawRhs)

\* C24: for a non-zero rational b and integers e and f whose powers of b can
\* be held by a rational: pow(b, 0) is 1, pow(b, e) is the mathematical power
\* b ^ e, pow(b, e) * pow(b, -e) is 1, pow(b, e + f) is pow(b, e) * pow(b, f),
\* inverse(b) has a positive denominator and inverse(inverse(b)) is b
C24_RationalPower ==
  /\ lawOp = "pow_zero" => LawHolds
  /\ lawOp = "pow" /\ Representable(lawA, lawE) =>
       RatEq(lawLhs, ExactPower(lawA, lawE).value)
  /\ ( /\ lawOp = "pow_inverse"
       /\ Representable(lawA, lawE)
       /\ Representable(lawA, -lawE) ) => LawHolds
  /\ ( /\ lawOp = "pow_of_sum"
       /\ Representable(lawA, lawE)
       /\ Representable(lawA, lawF)
       /\ Representable(lawA, lawE + lawF) ) => LawHolds
  /\ lawOp = "inverse_twice" => LawHolds /\ inverse(lawA).den > 0

\* the laws hold where no multiplication of the evaluation overflows
PowerLawsWithoutOverflow ==
  (lawOp \in {"pow_zero", "pow_inverse", "pow_of_sum", "inverse_twice"}
     /\ ~lawUB) => LawHolds

\* C28: where the numerator and the denominator of the mathematical product,
\* quotient or power in lowest terms fit the register, operator*, operator/
\* and pow return it and no multiplication of the evaluation overflows
C28_ExactInRange ==
  /\ lawOp = "times" /\ ExactTimes(lawA, lawB).fits =>
       /\ ~lawUB
       /\ RatEq(lawLhs, ExactTimes(lawA, lawB).value)
  /\ lawOp = "over" /\ ExactOver(lawA, lawB).fits =>
       /\ ~lawUB
       /\ RatEq(lawLhs, ExactOver(lawA, lawB).value)
  /\ lawOp = "pow" /\ Representable(lawA, lawE) =>
       /\ ~lawUB
       /\ RatEq(lawLhs, ExactPower(lawA, lawE).value)

\* pow alone is exact where the power can be held, and so are operator* and
\* operator/ where the products of the numerators and of the denominators as
\* they are stored fit
ExactWithoutOverflow ==
  /\ lawOp = "pow" /\ Representable(lawA, lawE) =>
       /\ ~lawUB
       /\ RatEq(lawLhs, ExactPower(lawA, lawE).value)
  /\ lawOp = "times" /\ ~lawUB =>
       /\ ExactTimes(lawA, lawB).fits
       /\ RatEq(lawLhs, ExactTimes(lawA, lawB).value)
  /\ lawOp = "over" /\ ~lawUB =>
       /\ ExactOver(lawA, lawB).fits
       /\ RatEq(lawLhs, ExactOver(lawA, lawB).value)

-----------------------------------------------------------------------------
(* Claims about the dimensionless unit *)

\* C26: A * unitless, unitless * A and A / unitless are simplify(A) in both
\* algebras, for every unit A; unitless * unitless is unitless
C26_DimensionlessIdentity ==
  /\ (uOp \in {"multiply", "divide"} /\ uArg = unitless) =>
       /\ dyn = simplify(dynPrev)
       /\ stat = static_simplify(statPrev)
  /\ (uOp = "multiply" /\ dynPrev = unitless /\ statPrev = unitless) =>
       /\ dyn = simplify(uArg)
       /\ stat = static_simplify(uArg)
       /\ uArg = unitless => IsUnitless(dyn) /\ IsUnitless(stat)

\* the static product of a unit that is not unitless itself with unitless is
\* the unit simplified
StaticIdentityOfOtherUnits ==
  /\ (uOp = "multiply" /\ uArg = unitless /\ uSteps = 1) =>
       (statPrev # unitless => stat = static_simplify(statPrev))
  /\ (uOp = "multiply" /\ statPrev = unitless /\ uSteps = 1) =>
       (uArg # unitless => stat = static_simplify(uArg))

-----------------------------------------------------------------------------
(* Claims about the failures of the dynamic operators *)

\* every term of the product is a power node
AllPowerNodes(p) ==
  /\ ~IsError(p)
  /\ \A i \in 1 .. Len(p.terms) : IsExp(p.terms[i])

\* the product under construction in operator* and operator/ after the first
\* operand was applied
FirstApplied == multiply_with(Product(<<>>), dynPrev)

\* C27: operator* and operator/ on units obtained by operator*, operator/,
\* root and simplify do not throw, and the product they build holds power
\* nodes only, after the first operand and after the second
C27_OperatorsNeverThrow ==
  /\ uOp \in {"multiply", "divide"} =>
       /\ ~IsError(dyn)
       /\ AllPowerNodes(FirstApplied)
  /\ uOp = "multiply" => AllPowerNodes(multiply_with(FirstApplied, uArg))
  /\ uOp = "divide" => AllPowerNodes(divide_by(FirstApplied, uArg))

\* a product returned by an operator, with a term that is a named unit and
\* not a power node, is multiplied or divided
C27_Witness ==
  /\ uOp \in {"multiply", "divide"}
  /\ uSteps = 2
  /\ IsProduct(dynPrev)
  /\ \E i \in 1 .. Len(dynPrev.terms) : IsNamed(dynPrev.terms[i])
  /\ IsProduct(uArg)
  /\ IsProduct(dyn)

-----------------------------------------------------------------------------
(* Claims about for_each *)

\* q is the smallest number of blocks of b threads that hold a threads
SmallestCover(q, a, b) ==
  /\ q * b >= a
  /\ \A r \in 0 .. (q - 1) : r * b < a

\* f was called at most once on every element and never behind the range
AppliedWithinRange ==
  \A i \in DOMAIN feApplied :
    IF i < feN THEN feApplied[i] <= 1 ELSE feApplied[i] = 0

\* f was called exactly once on every element
AppliedToAll == \A i \in DOMAIN feApplied : i < feN => feApplied[i] = 1

\* C30: for_each calls f exactly once on every element of [first, last) and
\* on nothing else, under every policy; the serial and the local version in
\* increasing order; the CUDA version on ceildiv(n, 32) blocks when n > 0 and
\* without a kernel when n = 0; ceildiv(a, b) is the smallest q with
\* q * b >= a
C30_ForEach ==
  /\ AppliedWithinRange
  /\ fePc = "done" => AppliedToAll
  /\ fePolicy \in {"local", "serial"} => feOrdered
  /\ fePc = "launched" =>
       /\ feN > 0
       /\ SmallestCover(feBlocks, feN, BlockSize)
  /\ (fePolicy = "cuda" /\ feN = 0) => (fePc # "launched" /\ feRan = {})
  /\ \A b \in 1 .. (BlockSize + 1) :
       feN > 0 => SmallestCover(ceildiv(feN, b), feN, b)

\* the same for the ranges whose length an unsigned holds
ForEachOfUnsignedLength ==
  feN < 2 ^ UnsignedBits =>
    /\ AppliedWithinRange
    /\ fePc = "done" => AppliedToAll
    /\ fePolicy \in {"local", "serial"} => feOrdered
    /\ fePc = "launched" =>
         /\ feN > 0
         /\ SmallestCover(feBlocks, feN, BlockSize)
    /\ (fePolicy = "cuda" /\ feN = 0) => (fePc # "launched" /\ feRan = {})

-----------------------------------------------------------------------------
(* Claims about the fixed-point sum *)

\* how often the double d occurs among the values of all ranks
Occurrences(d) ==
  Cardinality({ at \in Ranks \X (1 .. MaxValues) :
                  /\ at[2] <= Len(m_values[at[1]])
                  /\ m_values[at[1]][at[2]] = d })

\* the largest exponent of the values of all ranks, and minimum_exponent when
\* none is larger
LargestExponent ==
  LET exponents ==
        {minimum_exponent} \cup
          { exponent(d) : d \in { v \in Doubles : Occurrences(v) > 0 } }
  IN  CHOOSE m \in exponents : \A e \in exponents : e <= m

RECURSIVE SumOfFixedPoint(_)
\* the sum of the fixed-point values, at the largest exponent, of the doubles
\* of S as often as each occurs
SumOfFixedPoint(S) ==
  IF S = {}
    THEN 0
    ELSE LET d == CHOOSE v \in S : TRUE
         IN  Occurrences(d) * decompose_double(d, LargestExponent)
               + SumOfFixedPoint(S \ {d})

\* the double made of the multiset of the values alone: the sum of their
\* fixed-point values at the largest exponent, composed with that exponent
SumOfMultiset ==
  compose_double(SumOfFixedPoint({ v \in Doubles : Occurrences(v) > 0 }),
                 LargestExponent)

\* C25: the double compute() returns is made of the multiset of the values
\* alone, so it is the same on every rank, for every partitioning of the
\* values among the ranks, for every order in which a rank adds its values and
\* for every order in which the sums of the ranks are folded
C25_Deterministic ==
  \A r \in Ranks : fpPc[r] = "done" => fpResult[r] = SumOfMultiset

\* every rank has returned a sum that is not zero; the values are on more
\* than one rank, one rank added several, and the conversion of the value 5
\* to the largest exponent dropped a bit of it
C25_Witness ==
  /\ \A r \in Ranks : fpPc[r] = "done" /\ fpResult[r] # Zero
  /\ \E r, s \in Ranks :
       /\ r # s
       /\ Len(m_values[r]) >= 2
       /\ Len(m_values[s]) >= 1
  /\ Occurrences(Double(5, 0)) > 0
  /\ LargestExponent = 1
  /\ decompose_double(Double(5, 0), LargestExponent) * 2 # 5

============================================================================
